---- MODULE Spec2Model ----
(***************************************************************************)
(* protolint: the validator (validate, validateSyntax) and the formatter   *)
(* (format, shouldInsertBlankLine) as a state machine.  Text is a sequence *)
(* of one-character strings; every regular expression of the source is an  *)
(* operator that matches character by character.                           *)
(***************************************************************************)
EXTENDS Integers, Sequences, FiniteSets, TLC

----------------------------------------------------------------------------
(* Characters and the character classes of the regular expressions.        *)

Lower == {"a","b","c","d","e","f","g","h","i","j","k","l","m",
          "n","o","p","q","r","s","t","u","v","w","x","y","z"}
Upper == {"A","B","C","D","E","F","G","H","I","J","K","L","M",
          "N","O","P","Q","R","S","T","U","V","W","X","Y","Z"}
\* \d
Digit == {"0","1","2","3","4","5","6","7","8","9"}
\* \w
Word == Lower \cup Upper \cup Digit \cup {"_"}
\* \s, and what trim() removes (no line holds a line terminator)
WS == {" ", "\t"}
Punct == {"{","}",";","=","-","(",")","/","*","\"",".","<",">","[","]",",",":"}
\* . (a line never holds "\n": it is what split("\n") removes)
AnyChar == Word \cup WS \cup Punct

kw_message == <<"m","e","s","s","a","g","e">>
kw_enum == <<"e","n","u","m">>
kw_service == <<"s","e","r","v","i","c","e">>
kw_oneof == <<"o","n","e","o","f">>
kw_extend == <<"e","x","t","e","n","d">>
kw_reserved == <<"r","e","s","e","r","v","e","d">>
kw_option == <<"o","p","t","i","o","n">>
kw_extensions == <<"e","x","t","e","n","s","i","o","n","s">>
kw_map_lt == <<"m","a","p","<">>
kw_optional == <<"o","p","t","i","o","n","a","l">>
kw_repeated == <<"r","e","p","e","a","t","e","d">>
kw_required == <<"r","e","q","u","i","r","e","d">>
kw_syntax == <<"s","y","n","t","a","x">>
kw_package == <<"p","a","c","k","a","g","e">>
kw_import == <<"i","m","p","o","r","t">>
kw_rpc == <<"r","p","c">>
kw_returns == <<"r","e","t","u","r","n","s">>
kw_public == <<"p","u","b","l","i","c">>
kw_UNSPECIFIED == <<"U","N","S","P","E","C","I","F","I","E","D">>
s_slashes == <<"/","/">>
s_open_comment == <<"/","*">>
s_close_comment == <<"*","/">>
s_lbrace == <<"{">>
s_rbrace == <<"}">>
s_rbrace_semi == <<"}",";">>
s_proto2 == <<"p","r","o","t","o","2">>
s_proto3 == <<"p","r","o","t","o","3">>

----------------------------------------------------------------------------
(* String operations of the JavaScript runtime.                            *)

\* s.startsWith(lit, p-1): lit occurs in s at (1-based) position p
HasAt(s, p, lit) ==
    /\ p >= 1
    /\ p + Len(lit) - 1 <= Len(s)
    /\ SubSeq(s, p, p + Len(lit) - 1) = lit

StartsWith(s, lit) == HasAt(s, 1, lit)

EndsWith(s, lit) == HasAt(s, Len(s) - Len(lit) + 1, lit)

Includes(s, lit) == \E p \in 1..(Len(s) + 1) : HasAt(s, p, lit)

\* the number of characters of class C that s holds from position p on
Span(s, p, C) ==
    IF p > Len(s) THEN 0
    ELSE (CHOOSE k \in p..(Len(s) + 1) :
             /\ k = Len(s) + 1 \/ s[k] \notin C
             /\ \A j \in p..(k - 1) : s[j] \in C) - p

\* the number of characters of class C that s holds up to position p, backwards
SpanBack(s, p, C) ==
    IF p < 1 THEN 0
    ELSE p - (CHOOSE k \in 0..p :
                 /\ k = 0 \/ s[k] \notin C
                 /\ \A j \in (k + 1)..p : s[j] \in C)

TrimStart(s) == SubSeq(s, Span(s, 1, WS) + 1, Len(s))

TrimEnd(s) == SubSeq(s, 1, Len(s) - SpanBack(s, Len(s), WS))

Trim(s) == TrimEnd(TrimStart(s))

\* s.indexOf(lit) + 1, and 0 when lit does not occur
IndexOf(s, lit) ==
    IF Includes(s, lit)
    THEN CHOOSE p \in 1..(Len(s) + 1) :
            /\ HasAt(s, p, lit)
            /\ \A q \in 1..(p - 1) : ~HasAt(s, q, lit)
    ELSE 0

\* s.lastIndexOf(lit) + 1, and 0 when lit does not occur
LastIndexOf(s, lit) ==
    IF Includes(s, lit)
    THEN CHOOSE p \in 1..(Len(s) + 1) :
            /\ HasAt(s, p, lit)
            /\ \A q \in (p + 1)..(Len(s) + 1) : ~HasAt(s, q, lit)
    ELSE 0

\* (s.match(/c/g) || []).length
CountChar(s, c) == Cardinality({k \in 1..Len(s) : s[k] = c})

\* content.split("\n"): always at least one line
RECURSIVE Split(_)
Split(s) ==
    LET p == IndexOf(s, <<"\n">>)
    IN  IF p = 0 THEN <<s>>
        ELSE <<SubSeq(s, 1, p - 1)>> \o Split(SubSeq(s, p + 1, Len(s)))

\* lines.join("\n")
RECURSIVE Join(_)
Join(ls) ==
    IF ls = <<>> THEN <<>>
    ELSE IF Len(ls) = 1 THEN ls[1]
    ELSE ls[1] \o <<"\n">> \o Join(Tail(ls))

\* "  ".repeat(d)
RECURSIVE indent(_)
indent(d) == IF d <= 0 THEN <<>> ELSE <<" ", " ">> \o indent(d - 1)

\* parseInt(ds, 10) of a run of digits
DigitValue(c) ==
    CASE c = "0" -> 0 [] c = "1" -> 1 [] c = "2" -> 2 [] c = "3" -> 3
      [] c = "4" -> 4 [] c = "5" -> 5 [] c = "6" -> 6 [] c = "7" -> 7
      [] c = "8" -> 8 [] c = "9" -> 9

RECURSIVE parseInt(_)
parseInt(ds) ==
    IF ds = <<>> THEN 0
    ELSE 10 * parseInt(SubSeq(ds, 1, Len(ds) - 1)) + DigitValue(ds[Len(ds)])

----------------------------------------------------------------------------
(* Regular-expression matching.  A position p means "the next character    *)
(* read is s[p]"; a matcher maps the set of positions a match can have     *)
(* reached to the set it can reach after the next piece of the pattern.    *)

\* ^
AtStart == {1}
\* an unanchored pattern may start anywhere
Anywhere(s) == 1..(Len(s) + 1)
\* $
AtEnd(s, P) == P \cap {Len(s) + 1}
\* a literal
Lit(s, P, lit) == {p + Len(lit) : p \in {q \in P : HasAt(s, q, lit)}}
\* [C]
One(s, P, C) == {p + 1 : p \in {q \in P : q <= Len(s) /\ s[q] \in C}}
\* [C]*
Many0(s, P, C) == UNION {p..(p + Span(s, p, C)) : p \in P}
\* [C]+
Many1(s, P, C) == UNION {(p + 1)..(p + Span(s, p, C)) : p \in P}

----------------------------------------------------------------------------
(* Issues.  A message is the template of the source with the values it     *)
(* interpolates: a block type, a piece of text, a number.                  *)

Msg(kind, type, text, num) ==
    [kind |-> kind, type |-> type, text |-> text, num |-> num]

issue(line, column, rule, message, severity) ==
    [line |-> line, column |-> column, rule |-> rule,
     message |-> message, severity |-> severity]

\* every name taken for PascalCase
PASCAL_RE_AnyName(name) == TRUE

PASCAL_RE(name) ==
    AtEnd(name, Many0(name, One(name, AtStart, Upper),
                      Lower \cup Upper \cup Digit)) # {}

\* P closed under (_[C]+)
RECURSIVE UnderscoreGroups(_, _, _)
UnderscoreGroups(s, P, C) ==
    LET Q == Many1(s, Lit(s, P, <<"_">>), C)
    IN  IF Q \subseteq P THEN P ELSE UnderscoreGroups(s, P \cup Q, C)

SNAKE_RE(name) ==
    AtEnd(name, UnderscoreGroups(name,
                    Many0(name, One(name, AtStart, Lower), Lower \cup Digit),
                    Lower \cup Digit)) # {}

UPPER_SNAKE_RE(name) ==
    AtEnd(name, UnderscoreGroups(name,
                    Many0(name, One(name, AtStart, Upper), Upper \cup Digit),
                    Upper \cup Digit)) # {}

----------------------------------------------------------------------------
(* validateSyntax: the patterns.                                           *)

\* trimmed.replace(/\/\/.*$/, "")
StripLineComment(s) ==
    LET p == IndexOf(s, s_slashes)
    IN  IF p = 0 THEN s ELSE SubSeq(s, 1, p - 1)

\* trimmed.startsWith("//") || trimmed.startsWith("/*") || trimmed.startsWith("*")
IsCommentLine(trimmed) ==
    \/ StartsWith(trimmed, s_slashes)
    \/ StartsWith(trimmed, s_open_comment)
    \/ StartsWith(trimmed, <<"*">>)

\* /^(message|enum|oneof|reserved|option|extensions|map<)/
isNestedDef(code) ==
    \E kw \in {kw_message, kw_enum, kw_oneof, kw_reserved, kw_option,
               kw_extensions, kw_map_lt} : StartsWith(code, kw)

\* P closed under (?:\.\w+)
RECURSIVE DotGroups(_, _)
DotGroups(s, P) ==
    LET Q == Many1(s, Lit(s, P, <<".">>), Word)
    IN  IF Q \subseteq P THEN P ELSE DotGroups(s, P \cup Q)

\* (?:map<[^>]+>|\w+(?:\.\w+)*)\s+
FieldType(s, P) ==
    Many1(s,
          Lit(s, Many1(s, Lit(s, P, kw_map_lt), AnyChar \ {">"}), <<">">>)
            \cup DotGroups(s, Many1(s, P, Word)),
          WS)

\* (?:optional\s+|repeated\s+|required\s+) taken
FieldLabel(s, P) ==
    UNION {Many1(s, Lit(s, P, kw), WS) :
           kw \in {kw_optional, kw_repeated, kw_required}}

\* ^(?:optional\s+|repeated\s+|required\s+)?(?:map<[^>]+>|\w+(?:\.\w+)*)\s+
FieldHead(s) ==
    FieldType(s, FieldLabel(s, AtStart)) \cup FieldType(s, AtStart)

\* /^(?:optional\s+|repeated\s+|required\s+)?(?:map<[^>]+>|\w+(?:\.\w+)*)\s+\w+/
isFieldDecl(code) == Many1(code, FieldHead(code), Word) # {}

\* =\s*\d+\s*
NumberAssign(s, P) ==
    Many0(s, Many1(s, Many0(s, Lit(s, P, <<"=">>), WS), Digit), WS)

\* /=\s*\d+\s*;/
HasFieldNumberSemi(code) ==
    Lit(code, NumberAssign(code, Anywhere(code)), <<";">>) # {}

\* /=\s*\d+\s*\[/
HasFieldNumberOptions(code) ==
    Lit(code, NumberAssign(code, Anywhere(code)), <<"[">>) # {}

\* /=\s*\d+\s*$/
HasFieldNumberAtEnd(code) ==
    AtEnd(code, NumberAssign(code, Anywhere(code))) # {}

\* ^\w+\s*=\s*-?\d+\s*
EnumAssign(s) ==
    LET eq == Many0(s, Lit(s, Many0(s, Many1(s, AtStart, Word), WS), <<"=">>), WS)
    IN  Many0(s, Many1(s, eq \cup Lit(s, eq, <<"-">>), Digit), WS)

\* /^\w+\s*=\s*-?\d+\s*;/
IsEnumValueSemi(code) == Lit(code, EnumAssign(code), <<";">>) # {}

\* /^\w+\s*=\s*-?\d+\s*\[/
IsEnumValueOptions(code) == Lit(code, EnumAssign(code), <<"[">>) # {}

\* /^\w+\s*=\s*-?\d+\s*$/
IsEnumValueAtEnd(code) == AtEnd(code, EnumAssign(code)) # {}

\* blockMatch[1] of /^(message|enum|service|oneof)\s+(\w*)/, "" when no match
blockMatchType(code) ==
    IF Many1(code, Lit(code, AtStart, kw_message), WS) # {} THEN "message"
    ELSE IF Many1(code, Lit(code, AtStart, kw_enum), WS) # {} THEN "enum"
    ELSE IF Many1(code, Lit(code, AtStart, kw_service), WS) # {} THEN "service"
    ELSE IF Many1(code, Lit(code, AtStart, kw_oneof), WS) # {} THEN "oneof"
    ELSE ""

\* the word that follows the keyword kw and its whitespace: the group (\w*)
\* of /^kw\s+(\w*)/, both quantifiers being greedy
WordAfter(s, kw) ==
    LET p == Len(kw) + Span(s, Len(kw) + 1, WS) + 1
    IN  SubSeq(s, p, p + Span(s, p, Word) - 1)

blockMatchName(code) ==
    LET type == blockMatchType(code)
    IN  IF type = "message" THEN WordAfter(code, kw_message)
        ELSE IF type = "enum" THEN WordAfter(code, kw_enum)
        ELSE IF type = "service" THEN WordAfter(code, kw_service)
        ELSE IF type = "oneof" THEN WordAfter(code, kw_oneof)
        ELSE <<>>

\* \([^)]*\)
Parens(s, P) ==
    Lit(s, Many0(s, Lit(s, P, <<"(">>), AnyChar \ {")"}), <<")">>)

\* /^rpc\s+\w+\s*\([^)]*\)\s+returns\s+\([^)]*\)\s*[;{]/
IsWellFormedRpc(code) ==
    LET name == Many0(code, Many1(code, Many1(code, Lit(code, AtStart, kw_rpc), WS),
                                  Word), WS)
        ret  == Many1(code, Lit(code, Many1(code, Parens(code, name), WS),
                                kw_returns), WS)
    IN  One(code, Many0(code, Parens(code, ret), WS), {";", "{"}) # {}

\* the positions after the opening quote of /^syntax\s*=\s*"/
SyntaxValueStart(code) ==
    Lit(code, Many0(code, Lit(code, Many0(code, Lit(code, AtStart, kw_syntax), WS),
                              <<"=">>), WS), <<"\"">>)

\* code.match(/^syntax\s*=\s*"([^"]*)"\s*;/)
syntaxMatch(code) ==
    Lit(code,
        Many0(code,
              Lit(code, Many0(code, SyntaxValueStart(code), AnyChar \ {"\""}),
                  <<"\"">>),
              WS),
        <<";">>) # {}

\* syntaxMatch[1]: [^"]* stops at the first quote that follows the opening one
syntaxMatchValue(code) ==
    LET p == CHOOSE q \in SyntaxValueStart(code) : TRUE
    IN  SubSeq(code, p, p + Span(code, p, AnyChar \ {"\""}) - 1)

\* /^kw\s/
KeywordSpace(code, kw) == One(code, Lit(code, AtStart, kw), WS) # {}

\* the known top-level statements
isKnown(code) ==
    \/ code = s_rbrace
    \/ code = s_rbrace_semi
    \/ \E kw \in {kw_syntax, kw_package, kw_import, kw_option, kw_message,
                  kw_enum, kw_service, kw_extend} : KeywordSpace(code, kw)
    \/ One(code, Lit(code, AtStart, <<"/">>), {"/", "*"}) # {}
    \/ code = s_lbrace

\* /^(syntax|package|import|option)\s+/
IsStatementKeyword(code) ==
    \E kw \in {kw_syntax, kw_package, kw_import, kw_option} :
        Many1(code, Lit(code, AtStart, kw), WS) # {}

----------------------------------------------------------------------------
(* validateSyntax: its locals are the record S = [issues, braceStack,      *)
(* expectingBody, expectingType, expectingName, expectingLine].            *)

SyntaxInit ==
    [issues |-> <<>>, braceStack |-> <<>>, expectingBody |-> FALSE,
     expectingType |-> "", expectingName |-> <<>>, expectingLine |-> 0]

syntaxError(line, column, message) ==
    issue(line, column, "syntax-error", message, "error")

\* the field check made when the top context is message or oneof
FieldIssues(code, lineNum) ==
    IF /\ isFieldDecl(code)
       /\ ~isNestedDef(code)
       /\ ~(code = s_rbrace \/ code = s_rbrace_semi)
       /\ ~HasFieldNumberSemi(code)
       /\ ~HasFieldNumberOptions(code)
    THEN IF HasFieldNumberAtEnd(code)
         THEN <<syntaxError(lineNum, 1, Msg("field-missing-semicolon", "", <<>>, 0))>>
         ELSE <<syntaxError(lineNum, 1, Msg("field-missing-number", "", <<>>, 0))>>
    ELSE <<>>

\* the enum-value check made when the top context is enum
EnumValueIssues(code, lineNum) ==
    IF /\ ~(code = s_rbrace \/ code = s_rbrace_semi)
       /\ ~StartsWith(code, kw_option \o <<" ">>)
       /\ ~StartsWith(code, kw_reserved \o <<" ">>)
       /\ Many1(code, AtStart, Word) # {}
       /\ ~IsEnumValueSemi(code)
       /\ ~IsEnumValueOptions(code)
    THEN IF IsEnumValueAtEnd(code)
         THEN <<syntaxError(lineNum, 1, Msg("enum-missing-semicolon", "", <<>>, 0))>>
         ELSE <<syntaxError(lineNum, 1, Msg("enum-missing-number", "", <<>>, 0))>>
    ELSE <<>>

\* the line awaited after an opener reported also when it is the brace
BlockStep_BraceReported(S, code, lineNum) ==
    LET type == blockMatchType(code)
        name == blockMatchName(code)
    IN  IF type # ""
        THEN LET named == IF name = <<>>
                          THEN [S EXCEPT !.issues = @ \o
                                 <<syntaxError(lineNum, 1, Msg("missing-name", type, <<>>, 0))>>]
                          ELSE S
             IN  IF Includes(code, s_lbrace)
                 THEN [named EXCEPT !.braceStack =
                          Append(@, [type |-> type, name |-> name, line |-> lineNum])]
                 ELSE [named EXCEPT !.expectingBody = TRUE,
                                    !.expectingType = type,
                                    !.expectingName = name,
                                    !.expectingLine = lineNum]
        ELSE IF S.expectingBody
        THEN [S EXCEPT !.issues = @ \o
                 <<syntaxError(S.expectingLine, 1,
                       Msg("missing-opening-brace", S.expectingType,
                           S.expectingName, 0))>>,
                       !.expectingBody = FALSE]
        ELSE S

\* the openings of a line: a block opener, or the line awaited after one
BlockStep(S, code, lineNum) ==
    LET type == blockMatchType(code)
        name == blockMatchName(code)
    IN  IF type # ""
        THEN LET named == IF name = <<>>
                          THEN [S EXCEPT !.issues = @ \o
                                 <<syntaxError(lineNum, 1, Msg("missing-name", type, <<>>, 0))>>]
                          ELSE S
             IN  IF Includes(code, s_lbrace)
                 THEN [named EXCEPT !.braceStack =
                          Append(@, [type |-> type, name |-> name, line |-> lineNum])]
                 ELSE [named EXCEPT !.expectingBody = TRUE,
                                    !.expectingType = type,
                                    !.expectingName = name,
                                    !.expectingLine = lineNum]
        ELSE IF S.expectingBody
        THEN IF StartsWith(code, s_lbrace) \/ code = s_lbrace
             THEN [S EXCEPT !.braceStack =
                      Append(@, [type |-> S.expectingType, name |-> S.expectingName,
                                 line |-> S.expectingLine]),
                            !.expectingBody = FALSE]
             ELSE [S EXCEPT !.issues = @ \o
                      <<syntaxError(S.expectingLine, 1,
                            Msg("missing-opening-brace", S.expectingType,
                                S.expectingName, 0))>>,
                            !.expectingBody = FALSE]
        ELSE S

\* for (j < openCount) if (!blockMatch || j > 0) push a block
RECURSIVE PushBlocks(_, _, _, _, _)
PushBlocks(braceStack, j, openCount, isBlockMatch, lineNum) ==
    IF j >= openCount THEN braceStack
    ELSE PushBlocks(IF ~isBlockMatch \/ j > 0
                    THEN Append(braceStack,
                                [type |-> "block", name |-> <<>>, line |-> lineNum])
                    ELSE braceStack,
                    j + 1, openCount, isBlockMatch, lineNum)

\* for (j < closeCount) pop, or report a closing brace nothing opened
RECURSIVE PopBraces(_, _, _)
PopBraces(S, closeCount, lineNum) ==
    IF closeCount = 0 THEN S
    ELSE PopBraces(IF Len(S.braceStack) > 0
                   THEN [S EXCEPT !.braceStack = SubSeq(@, 1, Len(@) - 1)]
                   ELSE [S EXCEPT !.issues = @ \o
                           <<syntaxError(lineNum, 1,
                                 Msg("unexpected-closing-brace", "", <<>>, 0))>>],
                   closeCount - 1, lineNum)

BraceStep(S, code, lineNum) ==
    PopBraces([S EXCEPT !.braceStack =
                  PushBlocks(@, 0, CountChar(code, "{"),
                             blockMatchType(code) # "", lineNum)],
              CountChar(code, "}"), lineNum)

RpcIssues(currentContext, code, lineNum) ==
    IF /\ currentContext = "service"
       /\ StartsWith(code, kw_rpc \o <<" ">>)
       /\ ~IsWellFormedRpc(code)
    THEN <<syntaxError(lineNum, 1, Msg("malformed-rpc", "", <<>>, 0))>>
    ELSE <<>>

SyntaxValueIssues(code, lineNum) ==
    IF syntaxMatch(code) /\ syntaxMatchValue(code) \notin {s_proto2, s_proto3}
    THEN <<syntaxError(lineNum, 1,
               Msg("invalid-syntax-value", "", syntaxMatchValue(code), 0))>>
    ELSE <<>>

TrailingJunkIssues(code, lineNum) ==
    LET afterSemicolon ==
            Trim(SubSeq(code, LastIndexOf(code, <<";">>) + 1, Len(code)))
    IN  IF /\ Includes(code, <<";">>)
           /\ ~EndsWith(code, <<";">>)
           /\ ~Includes(code, s_lbrace)
           /\ afterSemicolon # <<>>
           /\ ~StartsWith(afterSemicolon, s_slashes)
        THEN <<syntaxError(lineNum, LastIndexOf(code, <<";">>) + 1,
                   Msg("content-after-semicolon", "", afterSemicolon, 0))>>
        ELSE <<>>

\* code.substring(0, 40): what the message shows of an unrecognized statement
MaxStatementShown == 40

UnrecognizedIssues(currentContext, expectingBody, code, lineNum) ==
    IF currentContext = "" /\ ~expectingBody /\ ~isKnown(code)
    THEN <<syntaxError(lineNum, 1,
               Msg("unrecognized-statement", "",
                   IF Len(code) > MaxStatementShown
                   THEN SubSeq(code, 1, MaxStatementShown) \o <<".", ".", ".">>
                   ELSE code, 0))>>
    ELSE <<>>

MissingSemicolonIssues(code, lineNum) ==
    IF /\ IsStatementKeyword(code)
       /\ ~EndsWith(code, <<";">>)
       /\ ~Includes(code, s_lbrace)
    THEN <<issue(lineNum, Len(code), "syntax-error",
                 Msg("statement-missing-semicolon", "", <<>>, 0), "error")>>
    ELSE <<>>

\* the context of the outermost open block instead of the innermost
currentContext_Outermost(braceStack) ==
    IF Len(braceStack) > 0 THEN braceStack[1].type ELSE ""

\* the type of the context on top of the stack, "" when the stack is empty
currentContext(braceStack) ==
    IF Len(braceStack) > 0 THEN braceStack[Len(braceStack)].type ELSE ""

\* one iteration of the loop of validateSyntax, on lines[lineNum - 1]
validateSyntaxLine(S, raw, lineNum) ==
    LET trimmed == Trim(raw)
        code == Trim(StripLineComment(trimmed))
    IN  IF trimmed = <<>> \/ IsCommentLine(trimmed) \/ code = <<>>
        THEN S
        ELSE
        LET context == currentContext(S.braceStack)
            S1 == [S EXCEPT !.issues = @ \o
                     (IF context \in {"message", "oneof"}
                      THEN FieldIssues(code, lineNum) ELSE <<>>) \o
                     (IF context = "enum"
                      THEN EnumValueIssues(code, lineNum) ELSE <<>>)]
            S2 == BlockStep(S1, code, lineNum)
            S3 == BraceStep(S2, code, lineNum)
        IN  [S3 EXCEPT !.issues = @ \o
                RpcIssues(context, code, lineNum) \o
                SyntaxValueIssues(code, lineNum) \o
                TrailingJunkIssues(code, lineNum) \o
                UnrecognizedIssues(context, S3.expectingBody, code, lineNum) \o
                MissingSemicolonIssues(code, lineNum)]

\* only the innermost open context reported
UnclosedIssues_TopOnly(braceStack) ==
    IF braceStack = <<>> THEN <<>>
    ELSE <<syntaxError(braceStack[Len(braceStack)].line, 1,
               Msg("unclosed", braceStack[Len(braceStack)].type,
                   braceStack[Len(braceStack)].name, 0))>>

\* for (const unclosed of braceStack) issues.push(...)
RECURSIVE UnclosedIssues(_)
UnclosedIssues(braceStack) ==
    IF braceStack = <<>> THEN <<>>
    ELSE <<syntaxError(Head(braceStack).line, 1,
               Msg("unclosed", Head(braceStack).type, Head(braceStack).name, 0))>>
         \o UnclosedIssues(Tail(braceStack))

----------------------------------------------------------------------------
(* validate: the style rules.  Its locals are the record V = [issues,      *)
(* hasSyntax, hasPackage, syntaxLine, packageLine, importLines,            *)
(* prevLineIsComment, currentEnum, braceDepth, inService, inEnum];         *)
(* currentEnum is <<>> for null and <<e>> for the enum e.  The locals the  *)
(* source writes and never reads (firstImportLine, lastImportLine,         *)
(* serviceHasComment, enumBlocks) are left out.                            *)

MaxLineLength == 80

\* the trailing-newline check, made before the loop
\* the warning also for the empty text
TrailingNewlineIssues_AlsoEmpty(content) ==
    IF ~EndsWith(content, <<"\n">>)
    THEN <<issue(Len(Split(content)), 1, "trailing-newline",
                 Msg("trailing-newline", "", <<>>, 0), "warning")>>
    ELSE <<>>

TrailingNewlineIssues(content) ==
    IF Len(content) > 0 /\ ~EndsWith(content, <<"\n">>)
    THEN <<issue(Len(Split(content)), 1, "trailing-newline",
                 Msg("trailing-newline", "", <<>>, 0), "warning")>>
    ELSE <<>>

ValidateInit(content) ==
    [issues |-> TrailingNewlineIssues(content),
     hasSyntax |-> FALSE, hasPackage |-> FALSE,
     syntaxLine |-> -1, packageLine |-> -1,
     importLines |-> <<>>, prevLineIsComment |-> FALSE,
     currentEnum |-> <<>>, braceDepth |-> 0,
     inService |-> FALSE, inEnum |-> FALSE]

\* /^kw\s+(\w+)/ matches
MatchesNamed(trimmed, kw) ==
    Many1(trimmed, Many1(trimmed, Lit(trimmed, AtStart, kw), WS), Word) # {}

\* /^(\w+)\s*=\s*(\d+)/
valMatch(trimmed) ==
    Many1(trimmed,
          Many0(trimmed,
                Lit(trimmed, Many0(trimmed, Many1(trimmed, AtStart, Word), WS),
                    <<"=">>),
                WS),
          Digit) # {}

\* valMatch[1]: \w+ is greedy, and what follows it is no word character
valMatchName(trimmed) == SubSeq(trimmed, 1, Span(trimmed, 1, Word))

\* valMatch[2]: the digits after the "=" and its whitespace
valMatchNumber(trimmed) ==
    LET e == Span(trimmed, 1, Word) + Span(trimmed, Span(trimmed, 1, Word) + 1, WS) + 1
        d == e + 1 + Span(trimmed, e + 1, WS)
    IN  SubSeq(trimmed, d, d + Span(trimmed, d, Digit) - 1)

\* the positions in P where (\w+)\s*=\s*\d+ matches
FieldNameStarts(s, P) ==
    {p \in P :
        LET q == p + Span(s, p, Word)
        IN  /\ q > p
            /\ Many1(s, Many0(s, Lit(s, Many0(s, {q}, WS), <<"=">>), WS), Digit) # {}}

\* /^(?:optional\s+|repeated\s+|required\s+)?(?:map<[^>]+>|\w+(?:\.\w+)*)\s+(\w+)\s*=\s*\d+/
fieldMatch(trimmed) ==
    FieldNameStarts(trimmed, FieldHead(trimmed)) # {}

\* fieldMatch[1]; the alternative with a label is tried first
fieldMatchName(trimmed) ==
    LET labelled == FieldNameStarts(trimmed, FieldType(trimmed, FieldLabel(trimmed, AtStart)))
        plain    == FieldNameStarts(trimmed, FieldType(trimmed, AtStart))
        p == IF labelled # {} THEN CHOOSE q \in labelled : TRUE
             ELSE CHOOSE q \in plain : TRUE
    IN  SubSeq(trimmed, p, p + Span(trimmed, p, Word) - 1)

styleError(line, rule, text) ==
    issue(line, 1, rule, Msg(rule, "", text, 0), "error")

styleWarning(line, rule) ==
    issue(line, 1, rule, Msg(rule, "", <<>>, 0), "warning")

\* the checks of the first value made when an enum closes
EnumCloseIssues(currentEnum) ==
    IF /\ Len(currentEnum.values) > 0
       /\ \/ currentEnum.values[1].number # 0
          \/ ~EndsWith(currentEnum.values[1].name, kw_UNSPECIFIED)
    THEN <<styleError(currentEnum.startLine, "enum-first-value-unspecified",
                      currentEnum.name)>>
    ELSE <<>>

\* the block "Enum detection": a line that opens an enum
EnumDetect(V, trimmed, lineNum) ==
    IF MatchesNamed(trimmed, kw_enum)
    THEN LET name == WordAfter(trimmed, kw_enum)
         IN  [V EXCEPT !.issues = @ \o
                 (IF ~PASCAL_RE(name)
                  THEN <<styleError(lineNum, "enum-name-pascal-case", name)>>
                  ELSE <<>>),
                       !.currentEnum =
                          <<[name |-> name, startLine |-> lineNum, values |-> <<>>]>>,
                       !.inEnum = TRUE]
    ELSE V

\* the block "Enum values": accumulate a value, and close the enum on a "}"
EnumValues(V, trimmed, lineNum) ==
    IF V.inEnum /\ V.currentEnum # <<>>
    THEN LET vName == valMatchName(trimmed)
             V1 == IF valMatch(trimmed)
                   THEN [V EXCEPT !.currentEnum[1].values =
                            Append(@, [name |-> vName,
                                       number |-> parseInt(valMatchNumber(trimmed)),
                                       line |-> lineNum]),
                                  !.issues = @ \o
                            (IF ~UPPER_SNAKE_RE(vName)
                             THEN <<styleError(lineNum, "enum-value-upper-snake-case", vName)>>
                             ELSE <<>>)]
                   ELSE V
         IN  IF Includes(trimmed, s_rbrace)
             THEN [V1 EXCEPT !.issues = @ \o EnumCloseIssues(V1.currentEnum[1]),
                             !.currentEnum = <<>>,
                             !.inEnum = FALSE]
             ELSE V1
    ELSE V

\* for (const ch of trimmed): the brace depth, and the end of a service;
\* braces holds the characters of trimmed that are braces, the others do nothing
RECURSIVE TrackBraces(_, _)
TrackBraces(V, braces) ==
    IF braces = <<>> THEN V
    ELSE TrackBraces(
            IF Head(braces) = "{" THEN [V EXCEPT !.braceDepth = @ + 1]
            ELSE [V EXCEPT !.braceDepth = @ - 1,
                           !.inService = IF V.braceDepth - 1 = 0 THEN FALSE ELSE @],
            Tail(braces))

IsBrace(ch) == ch \in {"{", "}"}

TrackBraceDepth(V, trimmed) == TrackBraces(V, SelectSeq(trimmed, IsBrace))

\* one iteration of the loop of validate, on raw = lines[lineNum - 1]
validateLine(V, raw, lineNum) ==
    LET trimmed == Trim(raw)
        isComment == IsCommentLine(trimmed)
        V1 == [V EXCEPT !.issues = @ \o
                 (IF Len(raw) > MaxLineLength
                  THEN <<issue(lineNum, MaxLineLength + 1, "max-line-length",
                               Msg("max-line-length", "", <<>>, Len(raw)), "warning")>>
                  ELSE <<>>)]
        V2 == IF StartsWith(trimmed, kw_syntax)
              THEN [V1 EXCEPT !.hasSyntax = TRUE, !.syntaxLine = lineNum]
              ELSE V1
        V3 == IF StartsWith(trimmed, kw_package \o <<" ">>)
              THEN [V2 EXCEPT !.hasPackage = TRUE, !.packageLine = lineNum]
              ELSE V2
        V4 == IF StartsWith(trimmed, kw_import \o <<" ">>)
              THEN [V3 EXCEPT !.importLines =
                       Append(@, [line |-> lineNum, text |-> trimmed,
                                  isPublic |-> StartsWith(trimmed,
                                      kw_import \o <<" ">> \o kw_public \o <<" ">>)])]
              ELSE V3
        V5 == IF /\ MatchesNamed(trimmed, kw_message)
                 /\ ~PASCAL_RE(WordAfter(trimmed, kw_message))
              THEN [V4 EXCEPT !.issues = @ \o
                       <<styleError(lineNum, "message-name-pascal-case",
                                    WordAfter(trimmed, kw_message))>>]
              ELSE V4
        V6 == EnumDetect(V5, trimmed, lineNum)
        V7 == EnumValues(V6, trimmed, lineNum)
        V8 == IF /\ fieldMatch(trimmed)
                 /\ ~V7.inEnum
                 /\ ~SNAKE_RE(fieldMatchName(trimmed))
              THEN [V7 EXCEPT !.issues = @ \o
                       <<styleError(lineNum, "field-name-snake-case",
                                    fieldMatchName(trimmed))>>]
              ELSE V7
        V9 == IF StartsWith(trimmed, kw_service \o <<" ">>)
              THEN [V8 EXCEPT !.inService = TRUE,
                              !.issues = @ \o
                       (IF ~V.prevLineIsComment
                        THEN <<styleWarning(lineNum, "service-comment")>>
                        ELSE <<>>)]
              ELSE V8
        V10 == IF /\ V9.inService
                  /\ StartsWith(trimmed, kw_rpc \o <<" ">>)
                  /\ ~V.prevLineIsComment
               THEN [V9 EXCEPT !.issues = @ \o <<styleWarning(lineNum, "rpc-comment")>>]
               ELSE V9
    IN  [TrackBraceDepth(V10, trimmed) EXCEPT !.prevLineIsComment = isComment]

\* the file structure checks made after the loop
FileStructureIssues(V) ==
    (IF ~V.hasSyntax
     THEN <<styleError(1, "syntax-declaration", <<>>)>> ELSE <<>>) \o
    (IF ~V.hasPackage
     THEN <<styleWarning(1, "package-declaration")>> ELSE <<>>) \o
    (IF V.hasSyntax /\ V.hasPackage /\ V.packageLine < V.syntaxLine
     THEN <<styleError(V.packageLine, "file-structure", <<>>)>> ELSE <<>>)

\* every public import after the first import of any kind is reported
RECURSIVE ImportOrderingIssues_AfterAnyImport(_, _)
ImportOrderingIssues_AfterAnyImport(importLines, seenNonPublic) ==
    IF importLines = <<>> THEN <<>>
    ELSE LET imp == Head(importLines)
         IN  (IF imp.isPublic /\ seenNonPublic
              THEN <<styleWarning(imp.line, "import-ordering")>> ELSE <<>>)
             \o ImportOrderingIssues_AfterAnyImport(Tail(importLines), TRUE)

\* the import ordering loop: public imports come first
RECURSIVE ImportOrderingIssues(_, _)
ImportOrderingIssues(importLines, seenNonPublic) ==
    IF importLines = <<>> THEN <<>>
    ELSE LET imp == Head(importLines)
             seen == seenNonPublic \/ ~imp.isPublic
         IN  (IF imp.isPublic /\ seen
              THEN <<styleWarning(imp.line, "import-ordering")>> ELSE <<>>)
             \o ImportOrderingIssues(Tail(importLines), seen)

----------------------------------------------------------------------------
(* validate: the aggregation of the issues of the two passes.              *)

\* the comparator (a, b) => a.line - b.line || a.column - b.column
compareIssues(a, b) ==
    IF a.line - b.line # 0 THEN a.line - b.line ELSE a.column - b.column

\* a sort that is not stable: x goes before the elements it compares equal to
RECURSIVE InsertSorted_BeforeEqual(_, _)
InsertSorted_BeforeEqual(sorted, x) ==
    IF sorted = <<>> THEN <<x>>
    ELSE IF compareIssues(Head(sorted), x) < 0
    THEN <<Head(sorted)>> \o InsertSorted_BeforeEqual(Tail(sorted), x)
    ELSE <<x>> \o sorted

\* x put into the sorted list after every element that does not compare greater
RECURSIVE InsertSorted(_, _)
InsertSorted(sorted, x) ==
    IF sorted = <<>> THEN <<x>>
    ELSE IF compareIssues(Head(sorted), x) <= 0
    THEN <<Head(sorted)>> \o InsertSorted(Tail(sorted), x)
    ELSE <<x>> \o sorted

\* issues.sort(comparator): Array.prototype.sort is stable
RECURSIVE sortIssues(_)
sortIssues(issues) ==
    IF issues = <<>> THEN <<>>
    ELSE InsertSorted(sortIssues(SubSeq(issues, 1, Len(issues) - 1)),
                      issues[Len(issues)])

\* issues.filter((i) => i.severity === severity)
RECURSIVE filterSeverity(_, _)
filterSeverity(issues, severity) ==
    IF issues = <<>> THEN <<>>
    ELSE (IF Head(issues).severity = severity THEN <<Head(issues)>> ELSE <<>>)
         \o filterSeverity(Tail(issues), severity)

\* valid computed from all the issues instead of the errors
ValidationResult_ValidIfNoIssues(issues) ==
    LET sorted == sortIssues(issues)
    IN  [valid |-> Len(sorted) = 0,
         errors |-> filterSeverity(sorted, "error"),
         warnings |-> filterSeverity(sorted, "warning"),
         info |-> filterSeverity(sorted, "info")]

\* the warnings filtered into info as well
ValidationResult_WarningsTwice(issues) ==
    LET sorted == sortIssues(issues)
        errors == filterSeverity(sorted, "error")
    IN  [valid |-> Len(errors) = 0,
         errors |-> errors,
         warnings |-> filterSeverity(sorted, "warning"),
         info |-> filterSeverity(sorted, "warning")]

\* the ValidationResult validate returns for the issues of the two passes
ValidationResult(issues) ==
    LET sorted == sortIssues(issues)
        errors == filterSeverity(sorted, "error")
    IN  [valid |-> Len(errors) = 0,
         errors |-> errors,
         warnings |-> filterSeverity(sorted, "warning"),
         info |-> filterSeverity(sorted, "info")]

----------------------------------------------------------------------------
(* format: the patterns and the replacements.                              *)

\* BLOCK_OPENERS = /^(message|enum|service|oneof|extend)\s+/
BLOCK_OPENERS(s) ==
    \E kw \in {kw_message, kw_enum, kw_service, kw_oneof, kw_extend} :
        Many1(s, Lit(s, AtStart, kw), WS) # {}

\* RPC_WITH_BODY = /^rpc\s+.*\{$/
RPC_WITH_BODY(s) ==
    AtEnd(s, Lit(s, Many0(s, Many1(s, Lit(s, AtStart, kw_rpc), WS), AnyChar),
                 s_lbrace)) # {}

\* trimmed.match(/^(.+;\s*)(}\s*)$/)
splitMatch(trimmed) ==
    AtEnd(trimmed,
          Many0(trimmed,
                Lit(trimmed,
                    Many0(trimmed,
                          Lit(trimmed, Many1(trimmed, AtStart, AnyChar), <<";">>),
                          WS),
                    s_rbrace),
                WS)) # {}

\* the pre-processing loop: "something; }" becomes two lines.  trimmed ends
\* in no whitespace, so the group (}\s*) is its last character.
RECURSIVE preSplit(_)
preSplit(rawLines) ==
    IF rawLines = <<>> THEN <<>>
    ELSE LET raw == Head(rawLines)
             trimmed == Trim(raw)
         IN  (IF splitMatch(trimmed) /\ ~StartsWith(trimmed, s_slashes)
              THEN <<Trim(SubSeq(trimmed, 1, Len(trimmed) - 1)),
                     Trim(SubSeq(trimmed, Len(trimmed), Len(trimmed)))>>
              ELSE <<raw>>)
             \o preSplit(Tail(rawLines))

\* the least position of s from which the characters of class C run up to lit
\* (at least min of them), and 0 when there is none: where /[C]*lit/ or
\* /[C]+lit/ matches first
FirstRunBefore(s, C, min, lit) ==
    LET hits == {p \in 1..Len(s) :
                    \E n \in min..Span(s, p, C) : HasAt(s, p + n, lit)}
    IN  IF hits = {} THEN 0
        ELSE CHOOSE p \in hits : \A q \in hits : p <= q

\* text.replace(/\s+/, " ")
ReplaceFirstSpaces(text) ==
    LET p == FirstRunBefore(text, WS, 1, <<>>)
    IN  IF p = 0 THEN text
        ELSE SubSeq(text, 1, p - 1) \o <<" ">>
             \o SubSeq(text, p + Span(text, p, WS), Len(text))

\* text.replace(/^(message|enum|service|oneof|extend)\s+/, "$1 ")
ReplaceKeywordSpaces(text) ==
    IF BLOCK_OPENERS(text) THEN ReplaceFirstSpaces(text) ELSE text

\* text.replace(/\s+\{$/, " {")
ReplaceSpacesBeforeBrace(text) ==
    LET n == SpanBack(text, Len(text) - 1, WS)
    IN  IF EndsWith(text, s_lbrace) /\ n >= 1
        THEN SubSeq(text, 1, Len(text) - 1 - n) \o <<" ", "{">>
        ELSE text

\* text.replace(/\s*=\s*/, " = ")
ReplaceEquals(text) ==
    LET p == FirstRunBefore(text, WS, 0, <<"=">>)
        e == p + Span(text, p, WS)
    IN  IF p = 0 THEN text
        ELSE SubSeq(text, 1, p - 1) \o <<" ", "=", " ">>
             \o SubSeq(text, e + 1 + Span(text, e + 1, WS), Len(text))

\* text.replace(/\s+;/, ";")
ReplaceSpacesBeforeSemicolon(text) ==
    LET p == FirstRunBefore(text, WS, 1, <<";">>)
    IN  IF p = 0 THEN text
        ELSE SubSeq(text, 1, p - 1) \o SubSeq(text, p + Span(text, p, WS), Len(text))

\* text.replace(/\(\s+/g, "(")
RECURSIVE ReplaceSpacesAfterParen(_)
ReplaceSpacesAfterParen(text) ==
    IF text = <<>> THEN <<>>
    ELSE IF Head(text) = "("
    THEN <<"(">> \o ReplaceSpacesAfterParen(
                        SubSeq(text, 2 + Span(text, 2, WS), Len(text)))
    ELSE <<Head(text)>> \o ReplaceSpacesAfterParen(Tail(text))

\* text.replace(/\s+\)/g, ")")
RECURSIVE ReplaceSpacesBeforeParen(_)
ReplaceSpacesBeforeParen(text) ==
    IF text = <<>> THEN <<>>
    ELSE LET n == Span(text, 1, WS)
         IN  IF n >= 1 /\ HasAt(text, n + 1, <<")">>)
             THEN <<")">> \o ReplaceSpacesBeforeParen(SubSeq(text, n + 2, Len(text)))
             ELSE IF n >= 1
             THEN SubSeq(text, 1, n) \o ReplaceSpacesBeforeParen(SubSeq(text, n + 1, Len(text)))
             ELSE <<Head(text)>> \o ReplaceSpacesBeforeParen(Tail(text))

\* text.replace(/\)\s+returns\s+\(/, ") returns (")
ReplaceReturns(text) ==
    LET ends(p) == Lit(text,
                       Many1(text,
                             Lit(text, Many1(text, Lit(text, {p}, <<")">>), WS),
                                 kw_returns),
                             WS),
                       <<"(">>)
        hits == {p \in 1..Len(text) : ends(p) # {}}
        p0 == CHOOSE p \in hits : \A q \in hits : p <= q
        e0 == CHOOSE e \in ends(p0) : TRUE
    IN  IF hits = {} THEN text
        ELSE SubSeq(text, 1, p0 - 1)
             \o <<")", " ">> \o kw_returns \o <<" ", "(">>
             \o SubSeq(text, e0, Len(text))

\* /^kw\s+/
KeywordSpaces(text, kw) == Many1(text, Lit(text, AtStart, kw), WS) # {}

\* /^(?:optional\s+|repeated\s+|required\s+)?(?:map<[^>]+>|\w+(?:\.\w+)*)\s+\w+\s*=/
IsFieldLine(text) ==
    Lit(text, Many0(text, Many1(text, FieldHead(text), Word), WS), <<"=">>) # {}

\* the classification of a line: its type
lineType(trimmed) ==
    IF KeywordSpaces(trimmed, kw_syntax) THEN "syntax"
    ELSE IF KeywordSpaces(trimmed, kw_package) THEN "package"
    ELSE IF KeywordSpaces(trimmed, kw_import) THEN "import"
    ELSE IF KeywordSpaces(trimmed, kw_option) THEN "option"
    ELSE IF StartsWith(trimmed, s_slashes) \/ StartsWith(trimmed, <<"*">>) THEN "comment"
    ELSE IF BLOCK_OPENERS(trimmed) THEN "block"
    ELSE IF StartsWith(trimmed, kw_rpc \o <<" ">>) THEN "rpc"
    ELSE IF IsFieldLine(trimmed) THEN "field"
    ELSE IF IsEnumValueSemi(trimmed) THEN "enumval"
    ELSE IF KeywordSpaces(trimmed, kw_reserved) THEN "reserved"
    ELSE "other"

\* the normalization of a line: its text
normalize(trimmed) ==
    LET type == lineType(trimmed)
    IN  IF type \in {"syntax", "package", "import", "option"}
        THEN ReplaceFirstSpaces(trimmed)
        ELSE IF type = "block"
        THEN ReplaceSpacesBeforeBrace(ReplaceKeywordSpaces(trimmed))
        ELSE IF type = "rpc"
        THEN ReplaceSpacesBeforeSemicolon(ReplaceReturns(
                 ReplaceSpacesBeforeParen(ReplaceSpacesAfterParen(trimmed))))
        ELSE IF type \in {"field", "enumval"}
        THEN ReplaceSpacesBeforeSemicolon(ReplaceEquals(trimmed))
        ELSE trimmed

----------------------------------------------------------------------------
(* format: the first pass.  Its locals are the record F = [formatted,      *)
(* depth, inBlockComment, i]; i is the (1-based) index of the next line.   *)

FormatInit ==
    [formatted |-> <<>>, depth |-> 0, inBlockComment |-> FALSE, i |-> 1]

token(text, depth, type) == [text |-> text, depth |-> depth, type |-> type]

\* while (nextIdx < lines.length && !lines[nextIdx].trim()) nextIdx++
RECURSIVE nextNonBlank(_, _)
nextNonBlank(lines, nextIdx) ==
    IF nextIdx <= Len(lines) /\ Trim(lines[nextIdx]) = <<>>
    THEN nextNonBlank(lines, nextIdx + 1)
    ELSE nextIdx

\* the merge leaves the loop on the opener: the line before it is returned
mergeIndex_StaysOnOpener(lines, i, text) ==
    LET nextIdx == nextNonBlank(lines, i + 1)
    IN  IF /\ BLOCK_OPENERS(text)
           /\ ~Includes(text, s_lbrace)
           /\ nextIdx <= Len(lines)
           /\ Trim(lines[nextIdx]) = s_lbrace
        THEN i - 1
        ELSE 0

\* the index of the lone "{" that the opener at line i is merged with, or 0
mergeIndex(lines, i, text) ==
    LET nextIdx == nextNonBlank(lines, i + 1)
    IN  IF /\ BLOCK_OPENERS(text)
           /\ ~Includes(text, s_lbrace)
           /\ nextIdx <= Len(lines)
           /\ Trim(lines[nextIdx]) = s_lbrace
        THEN nextIdx
        ELSE 0

\* every text that ends in "{" opens a block, a comment too
opensBlock_AnyBrace(trimmed, text) == EndsWith(text, s_lbrace)

\* const opensBlock = ...: the pushed token opens a block
opensBlock(trimmed, text) ==
    \/ BLOCK_OPENERS(trimmed) /\ EndsWith(text, s_lbrace)
    \/ RPC_WITH_BODY(text)
    \/ EndsWith(text, s_lbrace) /\ ~StartsWith(text, s_slashes)

\* one iteration of the first pass, on lines[F.i]
formatLine(F, lines) ==
    LET trimmed == Trim(TrimEnd(lines[F.i]))
        next == [F EXCEPT !.i = @ + 1]
    IN  IF F.inBlockComment
        THEN [next EXCEPT !.formatted = Append(@, token(trimmed, F.depth, "comment")),
                          !.inBlockComment = ~Includes(trimmed, s_close_comment)]
        ELSE IF StartsWith(trimmed, s_open_comment)
        THEN [next EXCEPT !.formatted = Append(@, token(trimmed, F.depth, "comment")),
                          !.inBlockComment = ~Includes(trimmed, s_close_comment)]
        ELSE IF trimmed = <<>>
        THEN next
        ELSE IF trimmed = s_rbrace \/ trimmed = s_rbrace_semi
        THEN LET depth == IF F.depth - 1 > 0 THEN F.depth - 1 ELSE 0
             IN  [next EXCEPT !.depth = depth,
                              !.formatted = Append(@, token(trimmed, depth, "close"))]
        ELSE
        LET merged == mergeIndex(lines, F.i, normalize(trimmed))
            text == IF merged # 0
                    THEN normalize(trimmed) \o <<" ", "{">>
                    ELSE normalize(trimmed)
        IN  [formatted |-> Append(F.formatted, token(text, F.depth, lineType(trimmed))),
             depth |-> IF opensBlock(trimmed, text) THEN F.depth + 1 ELSE F.depth,
             inBlockComment |-> F.inBlockComment,
             i |-> (IF merged # 0 THEN merged ELSE F.i) + 1]

----------------------------------------------------------------------------
(* format: the second pass.                                                *)

\* a blank line before every top-level block, also after its comment
shouldInsertBlankLine_BeforeEveryBlock(prev, curr) ==
    IF prev.type = "close" /\ curr.type # "close" THEN TRUE
    ELSE IF /\ prev.depth = 0
            /\ curr.depth = 0
            /\ \/ prev.type = "syntax" /\ curr.type # "syntax"
               \/ prev.type = "package" /\ curr.type # "package"
               \/ prev.type = "import" /\ curr.type # "import"
               \/ prev.type = "option" /\ curr.type # "option"
               \/ curr.type = "block"
               \/ /\ curr.type = "comment"
                  /\ prev.type \notin {"comment", "syntax", "package", "import", "option"}
    THEN TRUE
    ELSE FALSE

shouldInsertBlankLine(prev, curr) ==
    IF prev.type = "close" /\ curr.type # "close" THEN TRUE
    ELSE IF /\ prev.depth = 0
            /\ curr.depth = 0
            /\ \/ prev.type = "syntax" /\ curr.type # "syntax"
               \/ prev.type = "package" /\ curr.type # "package"
               \/ prev.type = "import" /\ curr.type # "import"
               \/ prev.type = "option" /\ curr.type # "option"
               \/ curr.type = "block" /\ prev.type # "comment"
               \/ /\ curr.type = "comment"
                  /\ prev.type \notin {"comment", "syntax", "package", "import", "option"}
    THEN TRUE
    ELSE FALSE

\* the loop of the second pass, from the token at index k on
RECURSIVE renderLines(_, _)
renderLines(formatted, k) ==
    IF k > Len(formatted) THEN <<>>
    ELSE (IF k > 1 /\ shouldInsertBlankLine(formatted[k - 1], formatted[k])
          THEN <<<<>>>> ELSE <<>>)
         \o <<indent(formatted[k].depth) \o formatted[k].text>>
         \o renderLines(formatted, k + 1)

\* while (result.length > 0 && result[result.length - 1] === "") result.pop()
RECURSIVE popBlankLines(_)
popBlankLines(result) ==
    IF Len(result) > 0 /\ result[Len(result)] = <<>>
    THEN popBlankLines(SubSeq(result, 1, Len(result) - 1))
    ELSE result

\* the rendered lines are joined as they are, with no final empty line
formatResult_NoFinalNewline(formatted) ==
    Join(popBlankLines(renderLines(formatted, 1)))

\* the string format returns for the tokens of the first pass
formatResult(formatted) ==
    Join(Append(popBlankLines(renderLines(formatted, 1)), <<>>))

----------------------------------------------------------------------------
(* The program: a caller holds a text (content) and calls validate or      *)
(* format on it; handleFormatAndValidate feeds the formatted text back as  *)
(* the next input.  Each loop iteration of the two functions is a step.    *)

VARIABLES content, pc, fed, lines, i, V, S, report, F, formattedText, previousText

vars == <<content, pc, fed, lines, i, V, S, report, F, formattedText, previousText>>

MaxLines == 3

\* the texts of at most n lines taken from the set of lines P, with and
\* without a newline at their end
Texts(P, n) ==
    LET seqs == UNION {[1..k -> P] : k \in 0..n}
    IN  {Join(ls) : ls \in seqs} \cup {Join(ls) \o <<"\n">> : ls \in seqs}

InitWith(texts) ==
    /\ content \in texts
    /\ pc = "idle"
    /\ fed = FALSE
    /\ lines = <<>>
    /\ i = 0
    /\ V = ValidateInit(<<>>)
    /\ S = SyntaxInit
    /\ report = [valid |-> TRUE, errors |-> <<>>, warnings |-> <<>>, info |-> <<>>]
    /\ F = FormatInit
    /\ formattedText = <<>>
    /\ previousText = <<>>

\* validate(content) is called: the lines are split, the trailing newline checked
CallValidate ==
    /\ pc = "idle"
    /\ pc' = "style"
    /\ lines' = Split(content)
    /\ V' = ValidateInit(content)
    /\ i' = 0
    /\ UNCHANGED <<content, fed, S, report, F, formattedText, previousText>>

\* one iteration of the loop of validate
ValidateLoop ==
    /\ pc = "style"
    /\ i < Len(lines)
    /\ V' = validateLine(V, lines[i + 1], i + 1)
    /\ i' = i + 1
    /\ UNCHANGED <<content, pc, fed, lines, S, report, F, formattedText, previousText>>

\* after the loop: the file structure checks, the import ordering, and the
\* call of validateSyntax(lines)
ValidateChecks ==
    /\ pc = "style"
    /\ i = Len(lines)
    /\ V' = [V EXCEPT !.issues = @ \o FileStructureIssues(V)
                                   \o ImportOrderingIssues(V.importLines, FALSE)]
    /\ S' = SyntaxInit
    /\ i' = 0
    /\ pc' = "syntax"
    /\ UNCHANGED <<content, fed, lines, report, F, formattedText, previousText>>

\* one iteration of the loop of validateSyntax
SyntaxLoop ==
    /\ pc = "syntax"
    /\ i < Len(lines)
    /\ S' = validateSyntaxLine(S, lines[i + 1], i + 1)
    /\ i' = i + 1
    /\ UNCHANGED <<content, pc, fed, lines, V, report, F, formattedText, previousText>>

\* after the loop of validateSyntax: the unclosed braces
SyntaxUnclosed ==
    /\ pc = "syntax"
    /\ i = Len(lines)
    /\ S' = [S EXCEPT !.issues = @ \o UnclosedIssues(S.braceStack)]
    /\ pc' = "aggregate"
    /\ UNCHANGED <<content, fed, lines, i, V, report, F, formattedText, previousText>>

\* validate merges, sorts and partitions the issues, and returns
Aggregate ==
    /\ pc = "aggregate"
    /\ report' = ValidationResult(V.issues \o S.issues)
    /\ pc' = "validated"
    /\ UNCHANGED <<content, fed, lines, i, V, S, F, formattedText, previousText>>

\* the tokens of the previous call are kept
CallFormat_KeepsTokens ==
    /\ pc = "idle"
    /\ pc' = "pass1"
    /\ lines' = preSplit(Split(content))
    /\ F' = [FormatInit EXCEPT !.formatted = F.formatted]
    /\ UNCHANGED <<content, fed, i, V, S, report, formattedText, previousText>>

\* format(content) is called: the lines are split and pre-processed
CallFormat ==
    /\ pc = "idle"
    /\ pc' = "pass1"
    /\ lines' = preSplit(Split(content))
    /\ F' = FormatInit
    /\ UNCHANGED <<content, fed, i, V, S, report, formattedText, previousText>>

\* one iteration of the first pass of format
FormatLoop ==
    /\ pc = "pass1"
    /\ F.i <= Len(lines)
    /\ F' = formatLine(F, lines)
    /\ UNCHANGED <<content, pc, fed, lines, i, V, S, report, formattedText, previousText>>

\* the second pass of format, and its return
FormatRender ==
    /\ pc = "pass1"
    /\ F.i > Len(lines)
    /\ formattedText' = formatResult(F.formatted)
    /\ pc' = "formatted"
    /\ UNCHANGED <<content, fed, lines, i, V, S, report, F, previousText>>

\* the caller takes the formatted text as its text (setContent(formatted)),
\* to validate it or to format it again
Feed ==
    /\ pc = "formatted"
    /\ ~fed
    /\ fed' = TRUE
    /\ content' = formattedText
    /\ previousText' = content
    /\ pc' = "idle"
    /\ UNCHANGED <<lines, i, V, S, report, F, formattedText>>

Next ==
    \/ CallValidate
    \/ ValidateLoop
    \/ ValidateChecks
    \/ SyntaxLoop
    \/ SyntaxUnclosed
    \/ Aggregate
    \/ CallFormat
    \/ FormatLoop
    \/ FormatRender
    \/ Feed

----------------------------------------------------------------------------
(* The specifications: the same program, on texts made of the lines that   *)
(* the properties of one part of the program are about.                    *)

ScanLines ==
    {<<"m","e","s","s","a","g","e"," ","F","o","o"," ","{">>,
     <<"m","e","s","s","a","g","e"," ","F","o","o">>,
     <<"{">>,
     <<"}">>,
     <<"s","t","r","i","n","g"," ","n","a","m","e"," ","="," ","1",";">>,
     <<"s","t","r","i","n","g"," ","n","a","m","e">>,
     <<"/","/"," ","c">>,
     <<"m","e","s","s","a","g","e"," ","F","o","o"," ","s","t","r","i","n","g"," ","n","a","m","e"," ","="," ","1",";"," ","}">>}

EnumLines ==
    {<<"e","n","u","m"," ","X"," ","{">>,
     <<"e","n","u","m"," ","X"," ","{"," ","A","_","U","N","S","P","E","C","I","F","I","E","D"," ","="," ","0",";">>,
     <<"A","_","U","N","S","P","E","C","I","F","I","E","D"," ","="," ","0",";">>,
     <<"B"," ","="," ","1",";">>,
     <<"F","O","O"," ","="," ","-","1",";">>,
     <<"}">>,
     <<"m","e","s","s","a","g","e"," ","F","o","o"," ","{">>,
     <<"s","t","r","i","n","g"," ","N","a","m","e"," ","="," ","1",";">>}

FormatLines ==
    {<<"m","e","s","s","a","g","e"," "," ","F","o","o","{">>,
     <<"m","e","s","s","a","g","e"," ","F","o","o">>,
     <<"{">>,
     <<"}">>,
     <<"s","t","r","i","n","g"," ","n","a","m","e","=","1",";">>,
     <<"i","n","t","3","2"," ","a"," ","="," ","1"," ",";"," ","i","n","t","3","2"," ","b"," ","="," ","2"," ",";">>,
     <<"x",";"," ","}">>,
     <<>>}

FileLines ==
    {<<"s","y","n","t","a","x"," ","="," ","\"","p","r","o","t","o","3","\"",";">>,
     <<"p","a","c","k","a","g","e"," ","a",";">>,
     <<"i","m","p","o","r","t"," ","\"","a",".","p","r","o","t","o","\"",";">>,
     <<"i","m","p","o","r","t"," ","p","u","b","l","i","c"," ","\"","b",".","p","r","o","t","o","\"",";">>,
     <<"/","/"," ","c">>,
     <<"s","e","r","v","i","c","e"," ","S"," ","{">>,
     <<"r","p","c"," ","G","e","t","(","R","e","q",")"," ","r","e","t","u","r","n","s"," ","(","R","e","s",")",";">>,
     <<"}">>}

\* whole files: declarations, imports, a service
Init == InitWith(Texts(FileLines, MaxLines))
Spec == Init /\ [][Next]_vars

\* the structural scanner: block openers, braces, fields
InitScan == InitWith(Texts(ScanLines, MaxLines))
SpecScan == InitScan /\ [][Next]_vars

\* enums, and fields inside and outside them
InitEnum == InitWith(Texts(EnumLines, MaxLines))
SpecEnum == InitEnum /\ [][Next]_vars

\* the formatter
InitFormat == InitWith(Texts(FormatLines, MaxLines))
SpecFormat == InitFormat /\ [][Next]_vars

\* a file that starts with its syntax and package lines and a blank line, as
\* it is or with an open message after them, and then up to MaxLines lines of
\* blocks and of a field whose name is not snake_case
Header == <<"s","y","n","t","a","x"," ","="," ","\"","p","r","o","t","o","3","\"",";","\n","p","a","c","k","a","g","e"," ","e","x","a","m","p","l","e",";","\n","\n">>

NamePrefixes == {Header, Header \o <<"m","e","s","s","a","g","e"," ","F","o","o"," ","{","\n">>}

NameLines ==
    {<<"m","e","s","s","a","g","e"," ","f","o","o"," ","{">>,
     <<"o","n","e","o","f"," ","o"," ","{">>,
     <<"s","e","r","v","i","c","e"," ","S"," ","{">>,
     <<"e","n","u","m"," ","X"," ","{">>,
     <<" "," ","s","t","r","i","n","g"," ","N","a","m","e"," ","="," ","1",";">>,
     <<"}">>}

InitNames ==
    InitWith({p \o t : p \in NamePrefixes, t \in Texts(NameLines, MaxLines)})
SpecNames == InitNames /\ [][Next]_vars

\* texts of openers without a brace, lone braces, comments and blank lines
TotalLines ==
    {<<"m","e","s","s","a","g","e"," ","F","o","o">>,
     <<"{">>,
     <<"}">>,
     <<"/","/"," ","c">>,
     <<>>}

InitTotal == InitWith(Texts(TotalLines, MaxLines))
SpecTotal == InitTotal /\ [][Next]_vars

\* texts of a service, its rpcs and comments, as they are, after a stray "}"
\* or inside a message that is left open
ServicePrefixes == {<<>>, <<"}","\n">>, <<"m","e","s","s","a","g","e"," ","F","o","o"," ","{","\n">>}

ServiceLines ==
    {<<"s","e","r","v","i","c","e"," ","S"," ","{">>,
     <<"}">>,
     <<"r","p","c"," ","G","e","t","(","R","e","q",")"," ","r","e","t","u","r","n","s"," ","(","R","e","s",")",";">>,
     <<"/","/"," ","c">>}

InitService ==
    InitWith({p \o t : p \in ServicePrefixes, t \in Texts(ServiceLines, MaxLines)})
SpecService == InitService /\ [][Next]_vars

\* block comments and line comments around a block, for the formatter
CommentLines ==
    {<<"m","e","s","s","a","g","e"," ","F","o","o"," ","{">>,
     <<"}">>,
     <<"/","*">>,
     <<"*","/">>,
     <<"x",";"," ","}">>,
     <<>>,
     <<"/","/"," ","c"," ","{">>,
     <<"/","*"," ","{">>}

InitComment == InitWith(Texts(CommentLines, MaxLines))
SpecComment == InitComment /\ [][Next]_vars

\* the body of a message: fields with and without number, semicolon and
\* options, and a oneof
FieldLines ==
    {<<"s","t","r","i","n","g"," ","n","a","m","e"," ","="," ","1",";">>,
     <<"s","t","r","i","n","g"," ","n","a","m","e"," ","="," ","1">>,
     <<"s","t","r","i","n","g"," ","n","a","m","e">>,
     <<"s","t","r","i","n","g"," ","n","a","m","e"," ","="," ","1"," ","[","d","e","p","r","e","c","a","t","e","d"," ","="," ","t","r","u","e","]",";">>,
     <<"s","t","r","i","n","g"," ","n","a","m","e"," ","="," ","1"," ","[","d","e","p","r","e","c","a","t","e","d"," ","="," ","t","r","u","e","]">>,
     <<"o","n","e","o","f"," ","o"," ","{">>,
     <<"}">>}

InitFields ==
    InitWith({<<"m","e","s","s","a","g","e"," ","F","o","o"," ","{","\n">> \o t : t \in Texts(FieldLines, MaxLines)})
SpecFields == InitFields /\ [][Next]_vars

----------------------------------------------------------------------------
(* Properties of validate: the report.                                     *)

\* the issues the two passes emitted, in the order they were emitted
Emitted == V.issues \o S.issues

Range(seq) == {seq[k] : k \in DOMAIN seq}

Occurrences(seq, x) == Cardinality({k \in DOMAIN seq : seq[k] = x})

\* the issues of seq that have the severity and the position of x
SameKey(seq, x) ==
    LET Test(y) == /\ y.severity = x.severity
                   /\ y.line = x.line
                   /\ y.column = x.column
    IN  SelectSeq(seq, Test)

\* C1: the report validate returns has valid = true exactly when its errors
\* list is empty.
C1_ValidIffNoErrors ==
    pc = "validated" => (report.valid <=> report.errors = <<>>)

\* C1: a report without errors (and with warnings) is returned
C1_Witness ==
    /\ pc = "validated"
    /\ report.valid
    /\ report.errors = <<>>
    /\ report.warnings # <<>>

\* C2: every issue the style rules or the structural scanner emitted is in
\* exactly one of errors, warnings and info, the one of its severity, and the
\* three lists hold nothing else.
C2_PartitionBySeverity ==
    pc = "validated" =>
        LET all == report.errors \o report.warnings \o report.info
        IN  /\ \A x \in Range(report.errors) : x.severity = "error"
            /\ \A x \in Range(report.warnings) : x.severity = "warning"
            /\ \A x \in Range(report.info) : x.severity = "info"
            /\ \A x \in Range(Emitted) \cup Range(all) :
                   Occurrences(all, x) = Occurrences(Emitted, x)

\* C2: a report with issues of both passes, errors and warnings
C2_Witness ==
    /\ pc = "validated"
    /\ report.errors # <<>>
    /\ report.warnings # <<>>
    /\ V.issues # <<>>
    /\ S.issues # <<>>

\* C3: errors, warnings and info are each ordered by (line, column), and the
\* issues of one (line, column) keep the order in which they were emitted.
C3_SortedAndStable ==
    pc = "validated" =>
        \A list \in {report.errors, report.warnings, report.info} :
            /\ \A k \in 1..(Len(list) - 1) :
                   \/ list[k].line < list[k + 1].line
                   \/ /\ list[k].line = list[k + 1].line
                      /\ list[k].column <= list[k + 1].column
            /\ \A x \in Range(list) : SameKey(list, x) = SameKey(Emitted, x)

\* C3: errors that had to be reordered, with two different errors at one
\* position
C3_Witness ==
    /\ pc = "validated"
    /\ report.errors # filterSeverity(Emitted, "error")
    /\ \E k \in 1..(Len(report.errors) - 1) :
           /\ report.errors[k].line = report.errors[k + 1].line
           /\ report.errors[k].column = report.errors[k + 1].column
           /\ report.errors[k] # report.errors[k + 1]

----------------------------------------------------------------------------
(* Properties of the structural scanner: braces.                           *)

\* the line of an issue: the lines validate was called on
LineText(n) == lines[n]

\* each "{" of the text is matched by a later "}", and no "}" comes first
BracesBalanced(text) ==
    /\ CountChar(text, "{") = CountChar(text, "}")
    /\ \A k \in 1..Len(text) :
           CountChar(SubSeq(text, 1, k), "{") >= CountChar(SubSeq(text, 1, k), "}")

IsUnclosedIssue(x) == x.message.kind = "unclosed"

\* validateSyntax has returned
Scanned == pc \in {"aggregate", "validated"}

\* C5: for a text whose braces are balanced, wherever the "{" of a block
\* stands (on the opener line or alone on the next line), the scanner ends
\* with an empty context stack and validate reports no unclosed block.
C5_BalancedLeavesNothingOpen ==
    (Scanned /\ BracesBalanced(content)) =>
        /\ S.braceStack = <<>>
        /\ SelectSeq(S.issues, IsUnclosedIssue) = <<>>

\* C6: after the last line, validateSyntax reports one unclosed block per
\* context left on the stack, in the order of the stack, at the line the
\* context was opened on (a line that holds a block opener or a "{").
C6_OneUnclosedPerOpenContext ==
    Scanned =>
        LET unclosed == SelectSeq(S.issues, IsUnclosedIssue)
        IN  /\ Len(unclosed) = Len(S.braceStack)
            /\ \A k \in 1..Len(unclosed) :
                   /\ unclosed[k].line = S.braceStack[k].line
                   /\ unclosed[k].column = 1
                   /\ unclosed[k].rule = "syntax-error"
                   /\ unclosed[k].severity = "error"
                   /\ unclosed[k].message.type = S.braceStack[k].type
                   /\ unclosed[k].message.text = S.braceStack[k].name
                   /\ unclosed[k].line \in 1..Len(lines)
                   /\ \/ Includes(LineText(unclosed[k].line), s_lbrace)
                      \/ blockMatchType(Trim(LineText(unclosed[k].line))) # ""

\* C6: two contexts opened on different lines are left open
C6_Witness ==
    /\ Scanned
    /\ Len(S.braceStack) >= 2
    /\ S.braceStack[1].line # S.braceStack[2].line
    /\ Len(SelectSeq(S.issues, IsUnclosedIssue)) >= 2

\* C9: the text of the scenario
C9_Input == <<"m","e","s","s","a","g","e"," ","F","o","o"," ","s","t","r","i","n","g"," ","n","a","m","e"," ","="," ","1",";"," ","}">>

\* C9: validating "message Foo string name = 1; }" yields a syntax-error
\* at line 1 that reports the missing opening brace of message Foo.
C9_MissingBraceReported ==
    (pc = "validated" /\ ~fed /\ content = C9_Input) =>
        \E x \in Range(report.errors) :
            /\ x.rule = "syntax-error"
            /\ x.line = 1
            /\ x.message.kind = "missing-opening-brace"
            /\ x.message.type = "message"
            /\ x.message.text = <<"F", "o", "o">>

----------------------------------------------------------------------------
(* Properties of the style rules: enums.                                   *)

\* the lines from the second on, each after a space
RECURSIVE JoinSpace(_)
JoinSpace(ls) ==
    IF ls = <<>> THEN <<>> ELSE <<" ">> \o Head(ls) \o JoinSpace(Tail(ls))

\* line k opens an enum block: enum <Name> {
OpensEnum(ls, k) ==
    LET t == Trim(ls[k])
    IN  Lit(t, Many0(t, Many1(t, Many1(t, Lit(t, AtStart, kw_enum), WS), Word), WS),
            s_lbrace) # {}

\* the text of the enum block opened at line k, after its "{"
EnumBody(ls, k) ==
    TrimStart(SubSeq(ls[k], IndexOf(ls[k], s_lbrace) + 1, Len(ls[k]))
              \o JoinSpace(SubSeq(ls, k + 1, Len(ls))))

\* the first declaration of an enum body: <name> = <-><digits> ;
DeclName(body) == SubSeq(body, 1, Span(body, 1, Word))
DeclEquals(body) == Len(DeclName(body)) + 1 + Span(body, Len(DeclName(body)) + 1, WS)
DeclSign(body) == DeclEquals(body) + 1 + Span(body, DeclEquals(body) + 1, WS)
DeclNegative(body) == HasAt(body, DeclSign(body), <<"-">>)
DeclDigitsAt(body) == DeclSign(body) + (IF DeclNegative(body) THEN 1 ELSE 0)
DeclDigits(body) ==
    SubSeq(body, DeclDigitsAt(body),
           DeclDigitsAt(body) + Span(body, DeclDigitsAt(body), Digit) - 1)
DeclEnd(body) ==
    DeclDigitsAt(body) + Len(DeclDigits(body))
      + Span(body, DeclDigitsAt(body) + Len(DeclDigits(body)), WS)

\* the body starts with a value declaration
DeclaresValue(body) ==
    /\ DeclName(body) # <<>>
    /\ HasAt(body, DeclEquals(body), <<"=">>)
    /\ DeclDigits(body) # <<>>
    /\ HasAt(body, DeclEnd(body), <<";">>)

\* the first declared value is <NAME>_UNSPECIFIED = 0;
FirstValueUnspecifiedZero(body) ==
    /\ DeclaresValue(body)
    /\ EndsWith(DeclName(body), kw_UNSPECIFIED)
    /\ parseInt(DeclDigits(body)) = 0

\* the errors of the rule enum-first-value-unspecified at line k
FirstValueErrors(k) ==
    LET Test(x) == x.rule = "enum-first-value-unspecified" /\ x.line = k
    IN  SelectSeq(report.errors, Test)

\* C7: an enum block whose first declared value is <NAME>_UNSPECIFIED = 0;
\* whatever the layout of its lines, is never reported for
\* enum-first-value-unspecified.
C7_UnspecifiedZeroNeverReported ==
    pc = "validated" =>
        \A k \in 1..Len(lines) :
            (OpensEnum(lines, k) /\ FirstValueUnspecifiedZero(EnumBody(lines, k)))
                => FirstValueErrors(k) = <<>>

\* C8: an enum block (closed by a "}") whose first declared value has a number
\* other than 0 or a name that does not end in UNSPECIFIED gets exactly one
\* enum-first-value-unspecified error, at the line that opens the enum.
C8_OtherFirstValueReportedOnce ==
    pc = "validated" =>
        \A k \in 1..Len(lines) :
            (/\ OpensEnum(lines, k)
             /\ DeclaresValue(EnumBody(lines, k))
             /\ ~FirstValueUnspecifiedZero(EnumBody(lines, k))
             /\ Includes(EnumBody(lines, k), s_rbrace))
                => Len(FirstValueErrors(k)) = 1

----------------------------------------------------------------------------
(* Properties of format.                                                   *)

\* C4: format is idempotent: formatting the text format returned returns it
\* unchanged.
C4_FormatIdempotent ==
    (pc = "formatted" /\ fed) => formattedText = content

\* C10: the text of the scenario, and the text the claim expects
C10_Input == <<"m","e","s","s","a","g","e"," "," ","F","o","o","{","\n","s","t","r","i","n","g"," ","n","a","m","e","=","1",";","\n","}">>

C10_Expected == <<"m","e","s","s","a","g","e"," ","F","o","o"," ","{","\n"," "," ","s","t","r","i","n","g"," ","n","a","m","e"," ","="," ","1",";","\n","}","\n">>

\* C10: formatting the lines "message  Foo{", "string name=1;", "}" returns
\* "message Foo {", "  string name = 1;", "}" and one newline: the brace that
\* follows the name directly gets one space before it.
C10_SpaceBeforeBrace ==
    (pc = "formatted" /\ ~fed /\ content = C10_Input) => formattedText = C10_Expected

----------------------------------------------------------------------------
(* Properties of the style rules: the file as a whole.                     *)

\* the issues of a list that have the rule, at line k
IssuesAt(list, rule, k) ==
    LET Test(x) == x.rule = rule /\ x.line = k
    IN  SelectSeq(list, Test)

\* the issues of a list that have the rule
IssuesOf(list, rule) ==
    LET Test(x) == x.rule = rule
    IN  SelectSeq(list, Test)

\* an import statement, and a public one: import public "..."
ImportLine(text) == Many1(Trim(text), Lit(Trim(text), AtStart, kw_import), WS) # {}

PublicImportLine(text) ==
    LET t == Trim(text)
    IN  Many1(t, Lit(t, Many1(t, Lit(t, AtStart, kw_import), WS), kw_public), WS) # {}

\* line k is a public import that follows an import that is not public
PublicAfterOther(k) ==
    /\ PublicImportLine(lines[k])
    /\ \E j \in 1..(k - 1) : ImportLine(lines[j]) /\ ~PublicImportLine(lines[j])

\* C11: validate reports exactly one import-ordering warning at each public
\* import line that follows an import that is not public, and none at any
\* other line, so none for a public import that precedes them all.
C11_ImportOrdering ==
    pc = "validated" =>
        /\ \A k \in 1..Len(lines) :
               Len(IssuesAt(report.warnings, "import-ordering", k))
                   = IF PublicAfterOther(k) THEN 1 ELSE 0
        /\ Len(IssuesOf(report.warnings, "import-ordering"))
               = Cardinality({k \in 1..Len(lines) : PublicAfterOther(k)})
        /\ IssuesOf(report.errors, "import-ordering") = <<>>

\* C11: a public import that comes first and is not reported, and a later
\* one that follows another import and is
C11_Witness ==
    /\ pc = "validated"
    /\ \E j, k \in 1..Len(lines) :
           /\ j < k
           /\ PublicImportLine(lines[j])
           /\ IssuesAt(report.warnings, "import-ordering", j) = <<>>
           /\ Len(IssuesAt(report.warnings, "import-ordering", k)) = 1

\* the text ends with a newline character
EndsWithNewline(text) == text # <<>> /\ text[Len(text)] = "\n"

\* C12 as stated: a text that does not end with a newline, the empty text
\* included, gets exactly one trailing-newline warning, and a text that ends
\* with a newline gets none.
C12_EveryTextWithoutNewline ==
    pc = "validated" =>
        Len(IssuesOf(report.warnings, "trailing-newline"))
            = IF EndsWithNewline(content) THEN 0 ELSE 1

\* C12: a text that is not empty and does not end with a newline gets exactly
\* one trailing-newline warning, at its last line; the empty text and a text
\* that ends with a newline get none.
C12_NonEmptyTextWithoutNewline ==
    pc = "validated" =>
        /\ Len(IssuesOf(report.warnings, "trailing-newline"))
               = IF content # <<>> /\ ~EndsWithNewline(content) THEN 1 ELSE 0
        /\ \A x \in Range(IssuesOf(report.warnings, "trailing-newline")) :
               x.line = Len(lines) /\ x.column = 1
        /\ IssuesOf(report.errors, "trailing-newline") = <<>>

\* C12: a text of several lines without a final newline has its warning
C12_Witness ==
    /\ pc = "validated"
    /\ Len(lines) >= 2
    /\ ~EndsWithNewline(content)
    /\ Len(IssuesAt(report.warnings, "trailing-newline", Len(lines))) = 1

\* a syntax line and a package line
SyntaxLine(text) == StartsWith(Trim(text), kw_syntax)

PackageLine(text) == Many1(Trim(text), Lit(Trim(text), AtStart, kw_package), WS) # {}

\* the package lines that precede a syntax line
PackagesBeforeSyntax ==
    {p \in 1..Len(lines) :
        /\ PackageLine(lines[p])
        /\ \E s \in (p + 1)..Len(lines) : SyntaxLine(lines[s])}

\* C15: when a package line precedes a syntax line, also in a file with
\* several package or syntax lines, validate reports a file-structure error
\* at such a package line; when none does, it reports no file-structure error.
C15_PackageBeforeSyntax ==
    pc = "validated" =>
        IF PackagesBeforeSyntax = {}
        THEN IssuesOf(report.errors, "file-structure") = <<>>
        ELSE \E x \in Range(IssuesOf(report.errors, "file-structure")) :
                 x.line \in PackagesBeforeSyntax

----------------------------------------------------------------------------
(* Properties of the style rules: names.                                   *)

\* C13: the text of the scenario
C13_Input == <<"s","y","n","t","a","x"," ","="," ","\"","p","r","o","t","o","3","\"",";","\n","p","a","c","k","a","g","e"," ","e","x","a","m","p","l","e",";","\n","\n","m","e","s","s","a","g","e"," ","f","o","o"," ","{","\n"," "," ","s","t","r","i","n","g"," ","N","a","m","e"," ","="," ","1",";","\n","}","\n">>

\* C13: for the text with a syntax line, a package line, the message foo and
\* its field Name, validate reports a message-name-pascal-case error for foo
\* at the message line and a field-name-snake-case error for Name at the
\* field line, and neither syntax-declaration nor package-declaration; every
\* line that declares message foo after a syntax and a package line is
\* reported once, at its line.
C13_FooNameScenario ==
    pc = "validated" =>
        /\ IssuesOf(report.errors \o report.warnings, "syntax-declaration") = <<>>
        /\ IssuesOf(report.errors \o report.warnings, "package-declaration") = <<>>
        /\ \A k \in 1..Len(lines) :
               MatchesNamed(Trim(lines[k]), kw_message) =>
                   Len(IssuesAt(report.errors, "message-name-pascal-case", k))
                       = IF WordAfter(Trim(lines[k]), kw_message) = <<"f", "o", "o">>
                         THEN 1 ELSE 0
        /\ content = C13_Input =>
               /\ \E x \in Range(report.errors) :
                      /\ x.rule = "message-name-pascal-case"
                      /\ x.line = 4
                      /\ x.message.text = <<"f", "o", "o">>
               /\ \E x \in Range(report.errors) :
                      /\ x.rule = "field-name-snake-case"
                      /\ x.line = 5
                      /\ x.message.text = <<"N", "a", "m", "e">>

\* C13: the scenario text has been validated
C13_Witness ==
    /\ pc = "validated"
    /\ ~fed
    /\ content = C13_Input
    /\ Len(report.errors) = 2

\* the state of the structural scanner after the first k lines
RECURSIVE ScanState(_, _)
ScanState(ls, k) ==
    IF k = 0 THEN SyntaxInit
    ELSE validateSyntaxLine(ScanState(ls, k - 1), ls[k], k)

\* the kind of the innermost block open where line k starts, "" at top level
InnermostAt(k) ==
    LET stack == ScanState(lines, k - 1).braceStack
    IN  IF stack = <<>> THEN "" ELSE stack[Len(stack)].type

\* line k has the shape of a field and its name is not snake_case
MisnamedField(k) ==
    /\ fieldMatch(Trim(lines[k]))
    /\ ~SNAKE_RE(fieldMatchName(Trim(lines[k])))

\* C14: a field-shaped line with a name that is not snake_case is reported for
\* field-name-snake-case if and only if the innermost block open at that line
\* is a message or a oneof: not at top level, in a service or in an enum, and
\* also in a message that follows an enum left unclosed.
C14_FieldNameByContext ==
    pc = "validated" =>
        \A k \in 1..Len(lines) :
            MisnamedField(k) =>
                (IssuesAt(report.errors, "field-name-snake-case", k) # <<>>
                    <=> InnermostAt(k) \in {"message", "oneof"})

----------------------------------------------------------------------------
(* Properties of format: blank lines.                                      *)

\* the lines of the text format returned
OutLines == Split(formattedText)

\* C16: format puts no blank line in a block body: in its output no empty line
\* stands before a line rendered at depth > 0 (an indented line), also when
\* that line follows the closing brace of a nested block.
C16_NoBlankLineInsideBlock ==
    pc = "formatted" =>
        LET out == OutLines
        IN  \A k \in 1..(Len(out) - 1) :
                out[k] = <<>> => ~StartsWith(out[k + 1], indent(1))

\* C17: for every input, the empty text and texts of blank lines included,
\* the output of format ends with exactly one newline character: its last
\* character is a newline and the character before it is not.
C17_ExactlyOneFinalNewline ==
    pc = "formatted" =>
        /\ EndsWithNewline(formattedText)
        /\ Len(formattedText) >= 2 => formattedText[Len(formattedText) - 1] # "\n"

\* a line of the output is a comment
CommentOut(text) ==
    \/ StartsWith(Trim(text), s_slashes)
    \/ StartsWith(Trim(text), s_open_comment)
    \/ StartsWith(Trim(text), <<"*">>)

\* the kinds of statement format keeps together
GroupedKinds == {"import", "field", "enumval", "rpc"}

\* C18: format inserts no blank line directly after a comment, at any depth
\* and whatever follows it, and none between two imports, two fields, two
\* enum values or two rpcs: in the output no empty line follows a comment
\* line, and none stands between two lines of one such kind.
C18_NoBlankAfterCommentOrInGroup ==
    pc = "formatted" =>
        LET out == OutLines
        IN  \A k \in 1..(Len(out) - 2) :
                out[k + 1] = <<>> =>
                    /\ ~CommentOut(out[k])
                    /\ ~(/\ lineType(Trim(out[k])) \in GroupedKinds
                         /\ lineType(Trim(out[k + 2])) = lineType(Trim(out[k])))

\* C18: an output where a blank line was inserted before a comment, and the
\* comment is followed at once by a block opener
C18_Witness ==
    /\ pc = "formatted"
    /\ \E k \in 2..(Len(OutLines) - 2) :
           /\ OutLines[k - 1] = <<>>
           /\ CommentOut(OutLines[k])
           /\ lineType(Trim(OutLines[k + 1])) = "block"

----------------------------------------------------------------------------
(* Properties of the structural scanner: contexts.                         *)

\* the issues of the checks that depend on the context: field, enum value, rpc
ContextKinds ==
    {"field-missing-semicolon", "field-missing-number",
     "enum-missing-semicolon", "enum-missing-number", "malformed-rpc"}

ContextIssues(issues) ==
    LET Test(x) == x.message.kind \in ContextKinds
    IN  SelectSeq(issues, Test)

\* the issues a scan in state S0 emits for the line raw
NewIssues(S0, raw, lineNum) ==
    LET S1 == validateSyntaxLine(S0, raw, lineNum)
    IN  SubSeq(S1.issues, Len(S0.issues) + 1, Len(S1.issues))

\* a scan with the same kind of context on top of its stack and nothing else
\* on it
KindOnly(S0) ==
    [S0 EXCEPT !.braceStack =
        IF @ = <<>> THEN <<>>
        ELSE <<[type |-> @[Len(@)].type, name |-> <<>>, line |-> 0]>>]

\* C19: the field, enum value and rpc issues the scanner emits for a line
\* depend only on the kind of the context on top of the stack when the line
\* starts: each step of the scan emits the issues that a scan with the same
\* kind on top and no context below it emits for that line.
C19_ChecksUseTopOfStackOnly ==
    [][(pc = "syntax" /\ pc' = "syntax") =>
          ContextIssues(SubSeq(S'.issues, Len(S.issues) + 1, Len(S'.issues)))
              = ContextIssues(NewIssues(KindOnly(S), lines[i + 1], i + 1))]_vars

\* C19: a line was reported by a context check with a context of another
\* kind below the one on top
C19_Witness ==
    /\ pc = "syntax"
    /\ i >= 1
    /\ S.issues # <<>>
    /\ S.issues[Len(S.issues)].line = i
    /\ S.issues[Len(S.issues)].message.kind \in ContextKinds
    /\ ~Includes(lines[i], s_lbrace)
    /\ ~Includes(lines[i], s_rbrace)
    /\ Len(S.braceStack) >= 2
    /\ S.braceStack[1].type # S.braceStack[Len(S.braceStack)].type

\* the statement of a line: empty for a blank line and for a comment line
CodeOf(text) ==
    IF IsCommentLine(Trim(text)) THEN <<>> ELSE Trim(StripLineComment(Trim(text)))

\* line k opens a block and holds no "{"
OpenerWithoutBrace(k) ==
    /\ blockMatchType(CodeOf(lines[k])) # ""
    /\ ~Includes(CodeOf(lines[k]), s_lbrace)

\* the first line after k that holds a statement, 0 when there is none
NextStatement(k) ==
    LET later == {j \in (k + 1)..Len(lines) : CodeOf(lines[j]) # <<>>}
    IN  IF later = {} THEN 0 ELSE CHOOSE j \in later : \A m \in later : j <= m

\* the reports of a missing opening brace at line k
MissingBraceAt(k) ==
    LET Test(x) == x.message.kind = "missing-opening-brace" /\ x.line = k
    IN  SelectSeq(report.errors, Test)

\* C20 as stated: an opener without "{" that is followed by a comment line and
\* then by a lone "{" is reported as missing its opening brace, at the
\* opener's line.
C20_CommentBeforeBraceReported ==
    pc = "validated" =>
        \A k \in 1..(Len(lines) - 2) :
            (/\ OpenerWithoutBrace(k)
             /\ Trim(lines[k + 1]) # <<>>
             /\ IsCommentLine(Trim(lines[k + 1]))
             /\ Trim(lines[k + 2]) = s_lbrace)
                => MissingBraceAt(k) # <<>>

\* C20: the lookahead inspects the next line that holds a statement, blank
\* lines and comment lines skipped: an opener without "{" is not reported
\* when that line starts with "{", also after a comment line, and is reported
\* exactly once, at the opener's line, when that line is another statement
\* that is not a block opener.
C20_NextStatementInspected ==
    pc = "validated" =>
        \A k \in 1..Len(lines) :
            (OpenerWithoutBrace(k) /\ NextStatement(k) # 0) =>
                LET next == CodeOf(lines[NextStatement(k)])
                IN  /\ StartsWith(next, s_lbrace) => MissingBraceAt(k) = <<>>
                    /\ (~StartsWith(next, s_lbrace) /\ blockMatchType(next) = "")
                           => Len(MissingBraceAt(k)) = 1

\* C20: an opener, a comment line and a lone "{" were scanned: nothing is
\* reported missing and the context of the opener is on the stack
C20_Witness ==
    /\ pc = "validated"
    /\ \E k \in 1..(Len(lines) - 2) :
           /\ OpenerWithoutBrace(k)
           /\ Trim(lines[k + 1]) # <<>>
           /\ IsCommentLine(Trim(lines[k + 1]))
           /\ Trim(lines[k + 2]) = s_lbrace
           /\ MissingBraceAt(k) = <<>>
           /\ \E e \in Range(S.braceStack) : e.line = k /\ e.type = "message"

----------------------------------------------------------------------------
(* Properties of the calls as a whole.                                     *)

\* each iteration of a loop moves its index forward, within the lines
LoopsAdvance ==
    /\ (pc = "style" /\ pc' = "style") => (i' = i + 1 /\ i' <= Len(lines))
    /\ (pc = "syntax" /\ pc' = "syntax") => (i' = i + 1 /\ i' <= Len(lines))
    /\ (pc = "pass1" /\ pc' = "pass1") => (F.i < F'.i /\ F'.i <= Len(lines) + 1)

\* the number of steps a call can still take: 0 when it has returned
Remaining(p, index, findex, n) ==
    IF p = "style" THEN (n - index) + n + 3
    ELSE IF p = "syntax" THEN (n - index) + 2
    ELSE IF p = "aggregate" THEN 1
    ELSE IF p = "pass1" THEN (n + 1 - findex) + 1
    ELSE 0

InCall == pc \in {"style", "syntax", "aggregate", "pass1"}

\* C21: validate and format are total: for every text (the empty text, a text
\* without a final newline, comments only, unbalanced braces) every iteration
\* of a loop moves its index forward, also where format jumps over a merged
\* "{" line, and every step of a call brings its return nearer: the number of
\* steps the call can still take is a natural number that decreases, and it
\* is 0 only when the report or the text has been returned.
C21_CallsTerminate ==
    [][/\ LoopsAdvance
       /\ InCall =>
              /\ Remaining(pc', i', F'.i, Len(lines')) < Remaining(pc, i, F.i, Len(lines))
              /\ Remaining(pc', i', F'.i, Len(lines')) >= 0
              /\ (Remaining(pc', i', F'.i, Len(lines')) = 0
                      <=> pc' \in {"validated", "formatted"})]_vars

\* C21: format has returned after it merged an opener with the "{" of a later
\* line, of a text whose braces are not balanced
C21_Witness ==
    /\ pc = "formatted"
    /\ ~BracesBalanced(content)
    /\ \E k \in 1..Len(F.formatted) :
           F.formatted[k].text = <<"m","e","s","s","a","g","e"," ","F","o","o"," ","{">>
    /\ Len(F.formatted) < Len(lines)

\* the first pass of format, run to its end from the state F0
RECURSIVE FormatRun(_, _)
FormatRun(F0, ls) ==
    IF F0.i > Len(ls) THEN F0 ELSE FormatRun(formatLine(F0, ls), ls)

\* the text format returns for a text, computed from the text alone
FormatOf(text) ==
    formatResult(FormatRun(FormatInit, preSplit(Split(text))).formatted)

\* the style pass over the first k lines of a text
RECURSIVE StyleState(_, _, _)
StyleState(text, ls, k) ==
    IF k = 0 THEN ValidateInit(text)
    ELSE validateLine(StyleState(text, ls, k - 1), ls[k], k)

\* the report validate returns for a text, computed from the text alone
ValidateOf(text) ==
    LET ls == Split(text)
        style == StyleState(text, ls, Len(ls))
        scan == ScanState(ls, Len(ls))
    IN  ValidationResult(style.issues
                           \o FileStructureIssues(style)
                           \o ImportOrderingIssues(style.importLines, FALSE)
                           \o scan.issues
                           \o UnclosedIssues(scan.braceStack))

----------------------------------------------------------------------------
(* Properties of the structural scanner: openers and their bodies.         *)

\* the first line after k that is not blank, 0 when there is none
NextNonBlankLine(k) ==
    LET later == {j \in (k + 1)..Len(lines) : Trim(lines[j]) # <<>>}
    IN  IF later = {} THEN 0 ELSE CHOOSE j \in later : \A m \in later : j <= m

\* C23: for every opener line without "{", the scanner reports exactly one
\* missing opening brace at the opener's line when the next non-blank line is
\* not a "{" line (another statement, another opener, or the end of the
\* input), and none when the next non-blank line is a "{".
C23_OpenerWithoutBraceReportedOnce ==
    pc = "validated" =>
        \A k \in 1..Len(lines) :
            OpenerWithoutBrace(k) =>
                Len(MissingBraceAt(k))
                    = IF /\ NextNonBlankLine(k) # 0
                         /\ Trim(lines[NextNonBlankLine(k)]) = s_lbrace
                      THEN 0 ELSE 1

\* the line has the shape of a field and holds no field number
FieldWithoutNumber(text) ==
    LET code == CodeOf(text)
    IN  /\ isFieldDecl(code)
        /\ ~isNestedDef(code)
        /\ code \notin {s_rbrace, s_rbrace_semi}
        /\ ~HasFieldNumberSemi(code)
        /\ ~HasFieldNumberOptions(code)
        /\ ~HasFieldNumberAtEnd(code)

\* the errors of one kind of the scanner at line k
ScanErrorsAt(kind, k) ==
    LET Test(x) == x.message.kind = kind /\ x.line = k
    IN  SelectSeq(report.errors, Test)

\* C24: when a message or oneof opener has its "{" alone on the next line,
\* the body is read under the kind of the opener: a field-shaped line without
\* a field number that follows is reported as missing a valid field number,
\* as it is when the "{" stands on the opener line.
C24_BodyAfterBraceOnNextLine ==
    pc = "validated" =>
        \A k \in 1..(Len(lines) - 2) :
            (/\ OpenerWithoutBrace(k)
             /\ blockMatchType(CodeOf(lines[k])) \in {"message", "oneof"}
             /\ Trim(lines[k + 1]) = s_lbrace
             /\ FieldWithoutNumber(lines[k + 2]))
                => Len(ScanErrorsAt("field-missing-number", k + 2)) = 1

----------------------------------------------------------------------------
(* Properties of the style rules: services.                                *)

\* the "{" of the lines s..j less their "}"
RECURSIVE BalanceFrom(_, _)
BalanceFrom(s, j) ==
    IF j < s THEN 0
    ELSE BalanceFrom(s, j - 1)
           + CountChar(lines[j], "{") - CountChar(lines[j], "}")

\* line k lies between a service line and the closing brace of that service:
\* the brace depth has not come back to its value at the service line
InsideService(k) ==
    \E s \in 1..(k - 1) :
        /\ StartsWith(Trim(lines[s]), kw_service \o <<" ">>)
        /\ \A j \in s..(k - 1) : BalanceFrom(s, j) > 0

\* the line before k is a comment line
AfterComment(k) ==
    /\ k > 1
    /\ Trim(lines[k - 1]) # <<>>
    /\ IsCommentLine(Trim(lines[k - 1]))

\* C25: a line is reported for rpc-comment only if it is an rpc line that
\* lies between a service line and the closing brace of that service (the
\* brace depth back at its value at the service line) and no comment line
\* comes just before it, also when the braces before the service are not
\* balanced.
C25_RpcCommentOnlyInsideService ==
    pc = "validated" =>
        \A k \in 1..Len(lines) :
            IssuesAt(report.warnings, "rpc-comment", k) # <<>> =>
                /\ StartsWith(Trim(lines[k]), kw_rpc \o <<" ">>)
                /\ InsideService(k)
                /\ ~AfterComment(k)

----------------------------------------------------------------------------
(* Properties of format: depth and block comments.                         *)

\* the token at index k of the first pass is a line of a block comment: it
\* opens one, or the comment of the token before it was not closed
RECURSIVE InBlockComment(_, _)
InBlockComment(tokens, k) ==
    IF k = 0 THEN FALSE
    ELSE IF /\ InBlockComment(tokens, k - 1)
            /\ ~Includes(tokens[k - 1].text, s_close_comment)
    THEN TRUE
    ELSE StartsWith(tokens[k].text, s_open_comment)

\* the depths of the tokens follow from each other: the first depth is that
\* of depth 0, and each token has the depth of the one before it, one more
\* if that one opens, one less (not below 0) if the token itself closes
DepthsFollow(tokens, Opens(_), Closes(_)) ==
    \A k \in 1..Len(tokens) :
        LET before == IF k = 1 THEN 0
                      ELSE IF Opens(k - 1) THEN tokens[k - 1].depth + 1
                      ELSE tokens[k - 1].depth
        IN  /\ tokens[k].depth >= 0
            /\ tokens[k].depth =
                   IF Closes(k)
                   THEN (IF before - 1 > 0 THEN before - 1 ELSE 0)
                   ELSE before

\* the output lines that are not empty are the tokens, each behind two
\* spaces for each level of its depth
IndentedByDepth(tokens, out) ==
    LET rendered == [k \in 1..Len(tokens) |->
                        indent(tokens[k].depth) \o tokens[k].text]
    IN  SelectSeq(out, LAMBDA l : l # <<>>)
            = SelectSeq(rendered, LAMBDA l : l # <<>>)

\* C26 as stated: the depth is never negative, is one more right after any
\* token whose text ends in "{", one less (not below 0) at any token "}" or
\* "};", changes nowhere else, and every output line is indented by two
\* spaces for each level of depth.
C26_DepthAfterAnyBrace ==
    LET tokens == F.formatted
    IN  /\ pc \in {"pass1", "formatted"} =>
               DepthsFollow(tokens,
                            LAMBDA k : EndsWith(tokens[k].text, s_lbrace),
                            LAMBDA k : tokens[k].text \in {s_rbrace, s_rbrace_semi})
        /\ pc = "formatted" => IndentedByDepth(tokens, OutLines)

\* C26 amended: the same, where the tokens that open are those ending in "{"
\* that are neither a "//" comment nor a line of a block comment, and the
\* tokens that close are the "}" and "};" outside block comments.
C26_DepthAfterCodeBrace ==
    LET tokens == F.formatted
    IN  /\ pc \in {"pass1", "formatted"} =>
               DepthsFollow(tokens,
                            LAMBDA k : /\ EndsWith(tokens[k].text, s_lbrace)
                                       /\ ~StartsWith(tokens[k].text, s_slashes)
                                       /\ ~InBlockComment(tokens, k),
                            LAMBDA k : /\ tokens[k].text \in {s_rbrace, s_rbrace_semi}
                                       /\ ~InBlockComment(tokens, k))
        /\ pc = "formatted" => IndentedByDepth(tokens, OutLines)

\* a block was opened, a "//" comment ending in "{" inside it left the depth
\* as it was, and the text was rendered
C26_Witness ==
    /\ pc = "formatted"
    /\ Len(F.formatted) = 3
    /\ F.formatted[1].text = <<"m","e","s","s","a","g","e"," ","F","o","o"," ","{">>
    /\ F.formatted[2] = token(<<"/","/"," ","c"," ","{">>, 1, "comment")
    /\ F.formatted[3] = token(s_rbrace, 0, "close")
    /\ OutLines[2] = <<" ", " ">> \o <<"/","/"," ","c"," ","{">>

\* the text is one block comment: its first line opens with "/*" and no line
\* before the last one contains "*/"
OneBlockComment(phys) ==
    /\ StartsWith(Trim(phys[1]), s_open_comment)
    /\ \A k \in 1..(Len(phys) - 1) : ~Includes(phys[k], s_close_comment)

\* C27: every line inside a block comment gives exactly one token, and so
\* one output line, with the content of the line, of type comment, at the
\* depth of the comment; a line "text; }" is not split.  Here for a text
\* that is one block comment at depth 0.
C27_BlockCommentLinesKept ==
    pc = "formatted" =>
        LET phys == Split(content)
        IN  OneBlockComment(phys) =>
                F.formatted = [k \in 1..Len(phys) |->
                                  token(Trim(phys[k]), 0, "comment")]

\* C29: no line of the output of format ends with whitespace: every line is
\* empty or ends in a character that is not whitespace, also the lines that
\* come from blank lines inside a block comment inside a block.
C29_NoTrailingWhitespace ==
    pc = "formatted" =>
        LET out == OutLines
        IN  \A k \in 1..Len(out) :
                out[k] = <<>> \/ out[k][Len(out[k])] \notin WS

----------------------------------------------------------------------------
(* Properties of the scanner: the field check.                             *)

\* the kinds of the errors of the field check at line k, in order
FieldErrorKinds(k) ==
    LET Test(x) == /\ x.line = k
                   /\ x.message.kind \in {"field-missing-semicolon",
                                          "field-missing-number"}
        found == SelectSeq(report.errors, Test)
    IN  [n \in 1..Len(found) |-> found[n].message.kind]

\* C28: where the top context is message or oneof, a field-shaped line that
\* is no nested definition and no closing brace gets no error of the field
\* check if it has a field number and ends in ";" (also after an options
\* bracket), one "missing a trailing semicolon" error if it has a field
\* number and does not end in ";", and one "missing a valid field number"
\* error if it has no field number.
C28_FieldOutcomes ==
    pc = "validated" =>
        \A k \in 1..Len(lines) :
            LET code == CodeOf(lines[k])
                hasNumber == NumberAssign(code, Anywhere(code)) # {}
            IN  (/\ InnermostAt(k) \in {"message", "oneof"}
                 /\ isFieldDecl(code)
                 /\ ~isNestedDef(code)
                 /\ code \notin {s_rbrace, s_rbrace_semi})
                => FieldErrorKinds(k) =
                       IF hasNumber /\ EndsWith(code, <<";">>) THEN <<>>
                       ELSE IF hasNumber THEN <<"field-missing-semicolon">>
                       ELSE <<"field-missing-number">>

----------------------------------------------------------------------------
(* Properties of format followed by validate.                              *)

====
